---------------------------- MODULE Spec2Model ----------------------------
(***************************************************************************)
(* A model of gdscript-formatter-mcp: the binary lifecycle manager         *)
(* (src/src/formatter_manager.rs), the control loop (src/src/main.rs),     *)
(* the request dispatcher (src/src/mcp.rs) and the framing layer           *)
(* (src/src/protocol.rs).                                                  *)
(***************************************************************************)
EXTENDS Naturals, Integers, Sequences, FiniteSets, TLC

(***************************************************************************)
(* Bounds of the model.                                                    *)
(***************************************************************************)
\* Number of write() calls io::copy needs to stream the archive entry.
NChunks == 2
\* Header lines ahead of the blank line in a stream handed to the reader.
MaxHeaderLines == 2
\* Files in a resolved target set.
MaxFiles == 2
\* Diagnostic lines a lint run prints.
MaxLintLines == 2
\* Distinct path strings target resolution meets.
MaxPath == 3
\* Entries of an explicit `files` list, and files a scan discovers.
MaxListed == 2
\* Files of a format outcome handed to the payload builders.
MaxProcessed == 22
\* Largest max_diagnostics a lint call asks for.
MaxAsked == 3
\* Pieces a child process's stderr is put together from.
MaxSegments == 4
\* Values written to one stream.
MaxMessages == 2

(***************************************************************************)
(* The shared cache directory {root}/{os}-{arch}/ and the server processes *)
(* that use it.                                                            *)
(***************************************************************************)
Procs == {"A", "B"}

\* release tags GitHub can report (git ref names hold no whitespace)
Tags == {<<"v", "1">>, <<"v", "2">>}

InodeIds == 1..4
NoInode == 0
None == "None"
\* a file that does not exist, and Option<String>
NoFile == [exists |-> FALSE, text |-> <<>>]
FileOf(text) == [exists |-> TRUE, text |-> text]
NoTag == [some |-> FALSE, tag |-> <<>>]
SomeTag(tag) == [some |-> TRUE, tag |-> tag]
NoRelease == [tag_name |-> <<>>, assets |-> <<>>]
Hole == "hole"

VARIABLES
    platform,       \* FormatterManager.platform: TRUE = Some(PlatformInfo)
    formatter_path, \* what GDSCRIPT_FORMATTER_PATH held when ensure_binary read it
    dirent,         \* directory entries of platform_dir: name -> inode
    inodes,         \* inode -> [data, exec]
    version_file,   \* content of {platform_dir}/VERSION, or NoFile
    pc,             \* each process's position in ensure_binary
    release,        \* the ReleaseInfo the process fetched
    installed_tag,  \* local of the update closure
    out_file,       \* inode the process's open File writes to
    offset,         \* file offset of out_file, in chunks
    update_err,     \* the step whose Err the process is carrying
    result,         \* what ensure_binary returned
    trace,          \* the calls the current ensure_binary run has made
    cache_env,      \* resolve_cache_root: the environment it runs in
    cache_root,     \* resolve_cache_root: its Result<PathBuf, String>
    stream,         \* read_mcp_message: the bytes left on the reader
    content_length, \* read_mcp_message: Option<usize>
    lines_read,     \* read_mcp_message: header lines read by this call
    dpc,            \* read_mcp_message: position
    decoded,        \* read_mcp_message: io::Result<Option<Value>>
    input,          \* read_mcp_message: the bytes on the reader when it was called
    value,          \* read_mcp_message: the Value of its Ok(Some(..))
    sent,           \* the values handed to write_mcp_message, in order
    outbox,         \* those of them not written yet
    received,       \* the values earlier read_mcp_message calls returned
    spc,            \* main: position of the control loop
    exit_cause,     \* main: why the process ended
    message,        \* main: the message being handled
    response,       \* handle_request: the response to it, once there is one
    last_exchange,  \* at the loop head: the iteration just finished, and its answer
    binary,         \* tool executors: what ensure_binary returned
    files,          \* tool executors: the resolved target set
    failures,       \* call_gdscript_format: failures
    spawn_log,      \* child processes run for this message: file arguments, outcome
    tool_result,    \* tool executors: the FormatToolResult / LintToolResult
    arguments,      \* resolve_target_files: the arguments map
    required,       \* resolve_target_files: the required flag
    walk,           \* collect_dir_files: what the scan of `dir` gives
    unique_files,   \* resolve_target_files: the BTreeSet, in its iteration order
    pending,        \* resolve_target_files: files still to insert
    tpc,            \* resolve_target_files: position
    resolved,       \* resolve_target_files: its Result<Vec<String>, String>
    scan,           \* collect_dir_files: the directory and the patterns given
    outcome,        \* payload builders: the tool result handed to them
    structured,     \* payload builders: structuredContent
    summary,        \* payload builders: the one-line text
    stdout,         \* a child process's output.stdout
    stderr,         \* a child process's output.stderr
    rpc,            \* output parsing: position
    reason,         \* normalize_reason / extract_format_failure_reason: the String
    parsed          \* parse_lint_diagnostics: diagnostics

cacheVars == <<dirent, inodes, version_file>>
installVars == <<platform, formatter_path, dirent, inodes, version_file, pc, release, installed_tag,
                 out_file, offset, update_err, result, trace>>

rootVars == <<cache_env, cache_root>>
decodeVars == <<stream, content_length, lines_read, dpc, decoded, input, value, sent, outbox,
                received>>
serverVars == <<spc, exit_cause, message, response, last_exchange, binary, files,
                failures, spawn_log, tool_result>>
targetVars == <<arguments, required, walk, unique_files, pending, tpc, resolved, scan>>
payloadVars == <<outcome, structured, summary>>
textVars == <<stdout, stderr, rpc, reason, parsed>>
nonInstallVars == <<rootVars, decodeVars, serverVars, targetVars, payloadVars, textVars>>

(***************************************************************************)
(* Text helpers: String::trim and the marker's "{tag}\n" format.           *)
(***************************************************************************)
IsWhitespace(c) == c \in {" ", "\n", "\t", "\r"}

RECURSIVE trim_start(_)
trim_start(s) ==
    IF s # <<>> /\ IsWhitespace(Head(s)) THEN trim_start(Tail(s)) ELSE s

RECURSIVE trim_end(_)
trim_end(s) ==
    IF s # <<>> /\ IsWhitespace(s[Len(s)])
    THEN trim_end(SubSeq(s, 1, Len(s) - 1))
    ELSE s

trim(s) == trim_end(trim_start(s))

\* format!("{}\n", release.tag_name)
VersionFileText(tag) == tag \o <<"\n">>

\* fs::read_to_string(&version_file_path).ok().map(|s| s.trim().to_owned())
ReadInstalledTag(file) == IF file.exists THEN SomeTag(trim(file.text)) ELSE NoTag

(***************************************************************************)
(* The file system: open(O_CREAT|O_TRUNC), write at an offset, chmod by    *)
(* path, rename, Path::exists.                                             *)
(***************************************************************************)
EmptyInode == [data |-> <<>>, exec |-> FALSE]

Max(a, b) == IF a >= b THEN a ELSE b

\* an inode is in use while a name or an open file refers to it
InUse(i) ==
    \/ \E n \in DOMAIN dirent : dirent[n] = i
    \/ \E p \in Procs : out_file[p] = i

FreshInode == CHOOSE i \in InodeIds : ~InUse(i) /\ \A j \in InodeIds : j < i => InUse(j)

\* write one chunk at chunk offset k (1-based cell k+1); a gap reads as zeros
WriteAt(data, k, chunk) ==
    [i \in 1..Max(Len(data), k + 1) |->
        IF i = k + 1 THEN chunk
        ELSE IF i <= Len(data) THEN data[i] ELSE Hole]

\* the bytes of the formatter binary of release `tag`
BinaryOf(tag) == [i \in 1..NChunks |-> tag]

Exists(name) == dirent[name] # NoInode

\* the file at `name` is a whole release binary with the executable bit set
CompleteExecutable(name) ==
    /\ Exists(name)
    /\ inodes[dirent[name]].exec
    /\ \E t \in Tags : inodes[dirent[name]].data = BinaryOf(t)

\* inodes no name and no open file refers to are reclaimed
Reclaim(ino, dir, open) ==
    [i \in InodeIds |->
        IF (\E n \in DOMAIN dir : dir[n] = i) \/ (\E p \in Procs : open[p] = i)
        THEN ino[i] ELSE EmptyInode]

(***************************************************************************)
(* Initial states: an empty cache, or the cache a previous server run      *)
(* left behind (binary of the first tag installed, marker written).        *)
(***************************************************************************)
InstalledTag == <<"v", "1">>

InitCacheEmpty ==
    /\ dirent = [n \in {"binary_path", "temp_output"} |-> NoInode]
    /\ inodes = [i \in InodeIds |-> EmptyInode]
    /\ version_file = NoFile

InitCacheInstalled ==
    /\ dirent = [n \in {"binary_path", "temp_output"} |->
                    IF n = "binary_path" THEN 1 ELSE NoInode]
    /\ inodes = [i \in InodeIds |->
                    IF i = 1 THEN [data |-> BinaryOf(InstalledTag), exec |-> TRUE]
                    ELSE EmptyInode]
    /\ version_file = FileOf(VersionFileText(InstalledTag))

\* the marker of an install whose binary was removed from the cache since
InitCacheMarkerOnly ==
    /\ dirent = [n \in {"binary_path", "temp_output"} |-> NoInode]
    /\ inodes = [i \in InodeIds |-> EmptyInode]
    /\ version_file = FileOf(VersionFileText(InstalledTag))

InitProcs ==
    /\ formatter_path = [p \in Procs |-> "unset"]
    /\ pc = [p \in Procs |-> "idle"]
    /\ release = [p \in Procs |-> NoRelease]
    /\ installed_tag = [p \in Procs |-> NoTag]
    /\ out_file = [p \in Procs |-> NoInode]
    /\ offset = [p \in Procs |-> 0]
    /\ update_err = [p \in Procs |-> None]
    /\ result = [p \in Procs |-> None]
    /\ trace = [p \in Procs |-> {}]

\* the lifecycle manager at rest, for the specifications of other components
IdleInstall ==
    /\ platform = TRUE
    /\ InitCacheEmpty
    /\ InitProcs

InitInstall ==
    /\ platform \in BOOLEAN
    /\ (InitCacheEmpty \/ InitCacheInstalled \/ InitCacheMarkerOnly)
    /\ InitProcs


(***************************************************************************)
(* ensure_binary, one action per call it makes on shared state.  Each      *)
(* action constrains the install variables only.                           *)
(***************************************************************************)
Failed(p, step) ==
    /\ update_err' = [update_err EXCEPT ![p] = step]
    /\ pc' = [pc EXCEPT ![p] = "fallback"]

Did(p, step) == trace' = [trace EXCEPT ![p] = @ \cup {step}]

\* lines 58-90: the override variable, the platform, the platform cache dir.
\* ov is what GDSCRIPT_FORMATTER_PATH holds: unset, a path that exists, or
\* a path that does not.
\* mutant: the platform is checked before the override variable is read
EnterOutcome_PlatformFirst(ov, plat, mkdir_ok) ==
    IF ~plat
    THEN [pc |-> "done", result |-> "Err", trace |-> {"env", "platform"}]
    ELSE IF ov = "exists"
    THEN [pc |-> "done", result |-> "Ok(override)", trace |-> {"env", "platform"}]
    ELSE IF ov = "missing"
    THEN [pc |-> "done", result |-> "Err", trace |-> {"env", "platform"}]
    ELSE IF ~mkdir_ok
    THEN [pc |-> "done", result |-> "Err",
          trace |-> {"env", "platform", "create_dir_all"}]
    ELSE [pc |-> "fetch", result |-> None,
          trace |-> {"env", "platform", "create_dir_all"}]

EnterOutcome(ov, plat, mkdir_ok) ==
    IF ov = "exists"
    THEN [pc |-> "done", result |-> "Ok(override)", trace |-> {"env"}]
    ELSE IF ov = "missing"
    THEN [pc |-> "done", result |-> "Err", trace |-> {"env"}]
    ELSE IF ~plat
    THEN [pc |-> "done", result |-> "Err", trace |-> {"env", "platform"}]
    ELSE IF ~mkdir_ok
    THEN [pc |-> "done", result |-> "Err",
          trace |-> {"env", "platform", "create_dir_all"}]
    ELSE [pc |-> "fetch", result |-> None,
          trace |-> {"env", "platform", "create_dir_all"}]

EnsureBinaryCall(p) ==
    /\ pc[p] = "idle"
    /\ \E ov \in {"unset", "exists", "missing"}, mkdir_ok \in BOOLEAN :
        LET o == EnterOutcome(ov, platform, mkdir_ok) IN
        /\ formatter_path' = [formatter_path EXCEPT ![p] = ov]
        /\ pc' = [pc EXCEPT ![p] = o.pc]
        /\ result' = [result EXCEPT ![p] = o.result]
        /\ trace' = [trace EXCEPT ![p] = o.trace]
    /\ UNCHANGED <<platform, cacheVars, release, installed_tag, out_file, offset,
                   update_err>>

\* a process calls ensure_binary
Enter(p) == EnsureBinaryCall(p) /\ UNCHANGED nonInstallVars

\* lines 92, 150-164: fetch_latest_release
\* asset names, in pieces: the formatter's archive for this platform and for
\* another one, another tool's archive for this platform, and the formatter
\* for this platform in another format
PlatformKey == "-linux-x86_64"
FormatterZip == <<"gdscript-formatter-", "0.1", PlatformKey, ".zip">>
OtherPlatformZip == <<"gdscript-formatter-", "0.1", "-windows-x86_64", ".zip">>
OtherToolZip == <<"gdscript-linter-", "0.1", PlatformKey, ".zip">>
FormatterTarball == <<"gdscript-formatter-", "0.1", PlatformKey, ".tar.gz">>

AssetLists ==
    {<<>>, <<FormatterZip>>, <<OtherPlatformZip, FormatterZip>>, <<OtherToolZip>>,
     <<FormatterTarball, OtherPlatformZip>>}

\* release.assets is read by select_asset_for_platform alone: once it has
\* run, `assets` holds the asset it selected and nothing else
Releases == [tag_name : Tags, assets : AssetLists]

NoAsset == [some |-> FALSE, name |-> <<>>]

\* mutant: any archive for the platform is taken
RECURSIVE select_asset_for_platform_AnyTool(_)
select_asset_for_platform_AnyTool(assets) ==
    IF assets = <<>> THEN NoAsset
    ELSE LET name == Head(assets) IN
         IF /\ \E i \in 1..Len(name) : name[i] = PlatformKey
            /\ name[Len(name)] = ".zip"
         THEN [some |-> TRUE, name |-> name]
         ELSE select_asset_for_platform_AnyTool(Tail(assets))

\* lines 342-361: the first asset that starts with gdscript-formatter-,
\* contains -{os}-{arch} and ends with .zip
RECURSIVE select_asset_for_platform(_)
select_asset_for_platform(assets) ==
    IF assets = <<>> THEN NoAsset
    ELSE LET name == Head(assets) IN
         IF /\ name[1] = "gdscript-formatter-"
            /\ \E i \in 1..Len(name) : name[i] = PlatformKey
            /\ name[Len(name)] = ".zip"
         THEN [some |-> TRUE, name |-> name]
         ELSE select_asset_for_platform(Tail(assets))

FetchLatestRelease(p) ==
    /\ pc[p] = "fetch"
    /\ Did(p, "fetch")
    /\ \E ok \in BOOLEAN :
        IF ok
        THEN /\ \E r \in Releases : release' = [release EXCEPT ![p] = r]
             /\ pc' = [pc EXCEPT ![p] = "select"]
             /\ UNCHANGED update_err
        ELSE Failed(p, "fetch") /\ UNCHANGED release
    /\ UNCHANGED <<platform, formatter_path, cacheVars, installed_tag, out_file, offset, result>>
    /\ UNCHANGED nonInstallVars

\* lines 95-98: select_asset_for_platform, then read the marker
SelectAndReadVersion(p) ==
    /\ pc[p] = "select"
    /\ LET asset == select_asset_for_platform(release[p].assets) IN
       IF ~asset.some
       THEN /\ Failed(p, "select_asset")
            /\ Did(p, "select_asset")
            /\ release' = [release EXCEPT ![p].assets = <<>>]
            /\ UNCHANGED installed_tag
       ELSE /\ installed_tag' =
                [installed_tag EXCEPT ![p] = ReadInstalledTag(version_file)]
            /\ pc' = [pc EXCEPT ![p] = "compare"]
            /\ trace' = [trace EXCEPT ![p] = @ \cup {"select_asset", "read_version"}]
            /\ release' = [release EXCEPT ![p].assets = <<asset.name>>]
            /\ UNCHANGED update_err
    /\ UNCHANGED <<platform, formatter_path, cacheVars, out_file, offset, result>>
    /\ UNCHANGED nonInstallVars

\* lines 100-104: the cached binary is current
\* mutant: the comparison forgets binary_path.exists()
UpToDate_MarkerOnly(installed, tag, binary_exists) == installed = SomeTag(tag)

UpToDate(installed, tag, binary_exists) == installed = SomeTag(tag) /\ binary_exists

CompareVersion(p) ==
    /\ pc[p] = "compare"
    /\ IF UpToDate(installed_tag[p], release[p].tag_name, Exists("binary_path"))
       THEN /\ pc' = [pc EXCEPT ![p] = "done"]
            /\ result' = [result EXCEPT ![p] = "Ok(binary_path)"]
       ELSE /\ pc' = [pc EXCEPT ![p] = "download"]
            /\ UNCHANGED result
    /\ Did(p, "compare")
    /\ UNCHANGED <<platform, formatter_path, cacheVars, release, installed_tag, out_file, offset,
                   update_err>>
    /\ UNCHANGED nonInstallVars

\* lines 171-233: download the asset into a private temp dir, open the zip,
\* look for the entry named like the binary
DownloadAsset(p) ==
    /\ pc[p] = "download"
    /\ Did(p, "download")
    /\ \E o \in {"download_failed", "no_entry", "entry"} :
        IF o = "entry"
        THEN pc' = [pc EXCEPT ![p] = "create"] /\ UNCHANGED update_err
        ELSE Failed(p, o)
    /\ UNCHANGED <<platform, formatter_path, cacheVars, release, installed_tag, out_file, offset,
                   result>>
    /\ UNCHANGED nonInstallVars

\* lines 235-242: File::create(target_binary_path.with_extension("download"))
CreateTemp(p) ==
    /\ pc[p] = "create"
    /\ Did(p, "create")
    /\ \E ok \in BOOLEAN :
        IF ok
        THEN LET i == IF Exists("temp_output") THEN dirent["temp_output"]
                      ELSE FreshInode IN
             /\ dirent' = [dirent EXCEPT !["temp_output"] = i]
             /\ inodes' = [inodes EXCEPT ![i].data = <<>>]
             /\ out_file' = [out_file EXCEPT ![p] = i]
             /\ offset' = [offset EXCEPT ![p] = 0]
             /\ pc' = [pc EXCEPT ![p] = "copy"]
             /\ UNCHANGED update_err
        ELSE /\ Failed(p, "create")
             /\ UNCHANGED <<dirent, inodes, out_file, offset>>
    /\ UNCHANGED <<platform, formatter_path, version_file, release, installed_tag, result>>
    /\ UNCHANGED nonInstallVars

\* dropping out_file on an early return or at the break
CloseFile(p) ==
    /\ out_file' = [out_file EXCEPT ![p] = NoInode]
    /\ offset' = [offset EXCEPT ![p] = 0]

\* lines 244-245: io::copy, one write per step.  The write goes to the file
\* out_file has open, whatever names that file has by now; the trace records
\* a write that landed in the file at binary_path.
CopyChunk(p) ==
    /\ pc[p] = "copy"
    /\ \E ok \in BOOLEAN :
        IF ok
        THEN /\ inodes' = [inodes EXCEPT ![out_file[p]].data =
                              WriteAt(@, offset[p], release[p].tag_name)]
             /\ offset' = [offset EXCEPT ![p] = @ + 1]
             /\ pc' = [pc EXCEPT ![p] = IF offset[p] + 1 = NChunks THEN "chmod" ELSE @]
             /\ trace' = [trace EXCEPT ![p] =
                            @ \cup (IF offset[p] + 1 = NChunks THEN {"copy"} ELSE {})
                              \cup (IF out_file[p] = dirent["binary_path"]
                                    THEN {"write to binary_path"} ELSE {})]
             /\ UNCHANGED <<out_file, update_err>>
        ELSE /\ Failed(p, "copy")
             /\ CloseFile(p)
             /\ inodes' = Reclaim(inodes, dirent, [out_file EXCEPT ![p] = NoInode])
             /\ UNCHANGED trace
    /\ UNCHANGED <<platform, formatter_path, dirent, version_file, release, installed_tag, result>>
    /\ UNCHANGED nonInstallVars

\* mutant: the result of set_executable_permissions is dropped
SetExecutable_Unchecked(p) ==
    /\ pc[p] = "chmod"
    /\ \E ok \in BOOLEAN :
        IF ok /\ Exists("temp_output")
        THEN /\ inodes' = [inodes EXCEPT ![dirent["temp_output"]].exec = TRUE]
             /\ Did(p, "chmod")
        ELSE UNCHANGED <<inodes, trace>>
    /\ pc' = [pc EXCEPT ![p] = "rename"]
    /\ UNCHANGED <<platform, formatter_path, dirent, version_file, release,
                   installed_tag, result, out_file, offset, update_err>>
    /\ UNCHANGED nonInstallVars

\* line 247: set_executable_permissions(&temp_output), by path
SetExecutable(p) ==
    /\ pc[p] = "chmod"
    /\ \E ok \in BOOLEAN :
        IF ok /\ Exists("temp_output")
        THEN /\ inodes' = [inodes EXCEPT ![dirent["temp_output"]].exec = TRUE]
             /\ pc' = [pc EXCEPT ![p] = "rename"]
             /\ Did(p, "chmod")
             /\ UNCHANGED <<out_file, offset, update_err>>
        ELSE /\ Failed(p, "chmod")
             /\ CloseFile(p)
             /\ inodes' = Reclaim(inodes, dirent, [out_file EXCEPT ![p] = NoInode])
             /\ UNCHANGED trace
    /\ UNCHANGED <<platform, formatter_path, dirent, version_file, release, installed_tag, result>>
    /\ UNCHANGED nonInstallVars

\* lines 248-257: fs::rename(&temp_output, target_binary_path), then break
RenameIntoPlace(p) ==
    /\ pc[p] = "rename"
    /\ CloseFile(p)
    /\ \E ok \in BOOLEAN :
        IF ok /\ Exists("temp_output")
        THEN LET d == [dirent EXCEPT !["binary_path"] = dirent["temp_output"],
                                     !["temp_output"] = NoInode] IN
             /\ dirent' = d
             /\ inodes' = Reclaim(inodes, d, [out_file EXCEPT ![p] = NoInode])
             /\ pc' = [pc EXCEPT ![p] = "write_version"]
             /\ Did(p, "rename")
             /\ UNCHANGED update_err
        ELSE /\ Failed(p, "rename")
             /\ inodes' = Reclaim(inodes, dirent, [out_file EXCEPT ![p] = NoInode])
             /\ UNCHANGED <<dirent, trace>>
    /\ UNCHANGED <<platform, formatter_path, version_file, release, installed_tag, result>>
    /\ UNCHANGED nonInstallVars

\* lines 107-115: fs::write(&version_file_path, ..) opens with O_TRUNC ...
OpenVersionFile(p) ==
    /\ pc[p] = "write_version"
    /\ \E ok \in BOOLEAN :
        IF ok
        THEN /\ version_file' = FileOf(<<>>)
             /\ pc' = [pc EXCEPT ![p] = "write_version_data"]
             /\ UNCHANGED update_err
        ELSE Failed(p, "write_version") /\ UNCHANGED version_file
    /\ UNCHANGED <<platform, formatter_path, dirent, inodes, release, installed_tag, out_file, offset,
                   result, trace>>
    /\ UNCHANGED nonInstallVars

\* mutant: the result of fs::write is dropped
WriteVersionFile_Unchecked(p) ==
    /\ pc[p] = "write_version_data"
    /\ \E ok \in BOOLEAN :
        /\ version_file' = IF ok THEN FileOf(VersionFileText(release[p].tag_name))
                           ELSE version_file
        /\ pc' = [pc EXCEPT ![p] = "done"]
        /\ result' = [result EXCEPT ![p] = "Ok(binary_path)"]
        /\ Did(p, "write_version")
        /\ UNCHANGED update_err
    /\ UNCHANGED <<platform, formatter_path, dirent, inodes, release, installed_tag, out_file, offset>>
    /\ UNCHANGED nonInstallVars

\* ... and then writes the tag line; lines 116-120: Ok(binary_path)
WriteVersionFile(p) ==
    /\ pc[p] = "write_version_data"
    /\ \E ok \in BOOLEAN :
        IF ok
        THEN /\ version_file' = FileOf(VersionFileText(release[p].tag_name))
             /\ pc' = [pc EXCEPT ![p] = "done"]
             /\ result' = [result EXCEPT ![p] = "Ok(binary_path)"]
             /\ Did(p, "write_version")
             /\ UNCHANGED update_err
        ELSE /\ Failed(p, "write_version")
             /\ UNCHANGED <<version_file, result, trace>>
    /\ UNCHANGED <<platform, formatter_path, dirent, inodes, release, installed_tag, out_file, offset>>
    /\ UNCHANGED nonInstallVars

\* lines 119-147: both Err arms decide on binary_path.exists()
\* mutant: a failed update is an error even with a cached binary
StaleFallback_AlwaysErr(binary_exists) == "Err"

StaleFallback(binary_exists) == IF binary_exists THEN "Ok(binary_path)" ELSE "Err"

Fallback(p) ==
    /\ pc[p] = "fallback"
    /\ result' = [result EXCEPT ![p] = StaleFallback(Exists("binary_path"))]
    /\ pc' = [pc EXCEPT ![p] = "done"]
    /\ Did(p, "fallback")
    /\ UNCHANGED <<platform, formatter_path, cacheVars, release, installed_tag, out_file, offset,
                   update_err>>
    /\ UNCHANGED nonInstallVars

\* ensure_binary has returned; the caller takes the result
EnsureBinaryReturn(p) ==
    /\ pc[p] = "done"
    /\ pc' = [pc EXCEPT ![p] = "idle"]
    /\ release' = [release EXCEPT ![p] = NoRelease]
    /\ installed_tag' = [installed_tag EXCEPT ![p] = NoTag]
    /\ update_err' = [update_err EXCEPT ![p] = None]
    /\ result' = [result EXCEPT ![p] = None]
    /\ trace' = [trace EXCEPT ![p] = {}]
    /\ formatter_path' = [formatter_path EXCEPT ![p] = "unset"]
    /\ UNCHANGED <<platform, cacheVars, out_file, offset>>

(***************************************************************************)
(* resolve_cache_root (formatter_manager.rs 298-340).  The environment:    *)
(* which variables are set, whether current_dir() works, and which of the  *)
(* directories create_dir_all can create.                                  *)
(***************************************************************************)
\* custom = $GDSCRIPT_FORMATTER_MCP_CACHE_DIR, xdg = $XDG_CACHE_HOME/<server>,
\* home = $HOME/.cache/<server>, rel = .gdscript-formatter-mcp-cache,
\* cwd = <current dir>/.gdscript-formatter-mcp-cache, temp = <temp dir>/<server>
CacheDirs == {"custom", "xdg", "home", "rel", "cwd", "temp"}

CacheEnvs ==
    [custom_set : BOOLEAN, xdg_set : BOOLEAN, home_set : BOOLEAN,
     cwd_ok : BOOLEAN, creatable : SUBSET CacheDirs]

Unresolved == [state |-> "unresolved", path |-> ""]
OkRoot(dir) == [state |-> "Ok", path |-> dir]
ErrRoot == [state |-> "Err", path |-> ""]

\* lines 298-306
default_cache_root(e) ==
    IF e.xdg_set THEN "xdg" ELSE IF e.home_set THEN "home" ELSE "rel"

\* lines 321-326
candidates(e) ==
    <<default_cache_root(e)>> \o (IF e.cwd_ok THEN <<"cwd">> ELSE <<>>) \o <<"temp">>

\* lines 328-339: the first candidate create_dir_all accepts
RECURSIVE FirstCreatable(_, _)
FirstCreatable(cands, creatable) ==
    IF cands = <<>> THEN ErrRoot
    ELSE IF Head(cands) \in creatable THEN OkRoot(Head(cands))
    ELSE FirstCreatable(Tail(cands), creatable)

\* mutant: an override that cannot be created falls through to the candidates
resolve_cache_root_FallThrough(e) ==
    FirstCreatable((IF e.custom_set THEN <<"custom">> ELSE <<>>) \o candidates(e),
                   e.creatable)

\* lines 308-340
resolve_cache_root(e) ==
    IF e.custom_set
    THEN IF "custom" \in e.creatable THEN OkRoot("custom") ELSE ErrRoot
    ELSE FirstCreatable(candidates(e), e.creatable)

ResolveCacheRoot ==
    /\ cache_root = Unresolved
    /\ cache_root' = resolve_cache_root(cache_env)
    /\ UNCHANGED <<cache_env, installVars, decodeVars, serverVars, targetVars, payloadVars, textVars>>

IdleRoot ==
    /\ cache_env = [custom_set |-> FALSE, xdg_set |-> FALSE, home_set |-> FALSE,
                    cwd_ok |-> FALSE, creatable |-> {}]
    /\ cache_root = Unresolved

InitRoot ==
    /\ cache_env \in CacheEnvs
    /\ cache_root = Unresolved

(***************************************************************************)
(* read_mcp_message (protocol.rs 4-55) over a byte stream.  A stream is a  *)
(* sequence of bytes; "CL", "cl" and "X" stand for the byte strings        *)
(* Content-Length, content-length and X-Other.                             *)
(***************************************************************************)
\* the sequences over S of length n at most
RECURSIVE SeqsUpTo(_, _)
SeqsUpTo(S, n) ==
    IF n = 0 THEN {<<>>}
    ELSE LET shorter == SeqsUpTo(S, n - 1)
         IN shorter \cup {Append(q, x) : q \in {r \in shorter : Len(r) = n - 1}, x \in S}

DigitChars == <<"0", "1", "2", "3", "4", "5", "6", "7", "8", "9">>

Digits == {DigitChars[i] : i \in 1..10}

DigitValue(d) == (CHOOSE i \in 1..10 : DigitChars[i] = d) - 1

\* usize's Display
RECURSIVE to_string(_)
to_string(n) ==
    IF n < 10 THEN <<DigitChars[n + 1]>>
    ELSE to_string(n \div 10) \o <<DigitChars[(n % 10) + 1]>>

NoLength == [some |-> FALSE, len |-> 0]
SomeLength(n) == [some |-> TRUE, len |-> n]

\* BufRead::read_line: through the first "\n", or to the end of the stream
RECURSIVE LineEnd(_, _)
LineEnd(s, i) ==
    IF i > Len(s) THEN Len(s) ELSE IF s[i] = "\n" THEN i ELSE LineEnd(s, i + 1)

read_line(s) ==
    [line |-> SubSeq(s, 1, LineEnd(s, 1)),
     rest |-> SubSeq(s, LineEnd(s, 1) + 1, Len(s))]

\* line.trim_end_matches(['\r', '\n'])
RECURSIVE trim_end_matches(_)
trim_end_matches(line) ==
    IF line # <<>> /\ line[Len(line)] \in {"\r", "\n"}
    THEN trim_end_matches(SubSeq(line, 1, Len(line) - 1))
    ELSE line

\* str::split_once(':')
RECURSIVE IndexOf(_, _, _)
IndexOf(s, c, i) ==
    IF i > Len(s) THEN 0 ELSE IF s[i] = c THEN i ELSE IndexOf(s, c, i + 1)

split_once(line, c) ==
    LET i == IndexOf(line, c, 1) IN
    IF i = 0 THEN [some |-> FALSE, name |-> <<>>, value |-> <<>>]
    ELSE [some |-> TRUE, name |-> SubSeq(line, 1, i - 1),
          value |-> SubSeq(line, i + 1, Len(line))]

\* name.eq_ignore_ascii_case("Content-Length")
IsContentLength(name) == name \in {<<"CL">>, <<"cl">>}

\* str::parse::<usize>
RECURSIVE DecimalValue(_)
DecimalValue(ds) ==
    IF ds = <<>> THEN 0
    ELSE 10 * DecimalValue(SubSeq(ds, 1, Len(ds) - 1)) + DigitValue(ds[Len(ds)])

parse_usize(ds) ==
    IF ds # <<>> /\ \A i \in 1..Len(ds) : ds[i] \in Digits
    THEN SomeLength(DecimalValue(ds))
    ELSE NoLength

\* JSON values: the empty object, a number, an array of `n` zeros
NoValue == [kind |-> "none", n |-> 0]
Object == [kind |-> "object", n |-> 0]
Number(n) == [kind |-> "number", n |-> n]
Zeros(n) == [kind |-> "array", n |-> n]

RECURSIVE ZerosText(_)
ZerosText(n) == IF n = 1 THEN <<"0">> ELSE ZerosText(n - 1) \o <<",", "0">>

\* serde_json::to_vec
to_vec(v) ==
    IF v.kind = "object" THEN <<"{", "}">>
    ELSE IF v.kind = "number" THEN to_string(v.n)
    ELSE IF v.n = 0 THEN <<"[", "]">>
    ELSE <<"[">> \o ZerosText(v.n) \o <<"]">>

\* serde_json::from_slice, on the texts the streams hold
from_slice(body) ==
    IF body = <<"{", "}">> THEN [some |-> TRUE, value |-> Object]
    ELSE IF /\ body # <<>>
            /\ \A i \in 1..Len(body) : body[i] \in Digits
            /\ Len(body) = 1 \/ body[1] # "0"
    THEN [some |-> TRUE, value |-> Number(DecimalValue(body))]
    ELSE IF body = <<"[", "]">> THEN [some |-> TRUE, value |-> Zeros(0)]
    ELSE IF /\ Len(body) >= 3 /\ Len(body) % 2 = 1
            /\ body[1] = "[" /\ body[Len(body)] = "]"
            /\ \A i \in 2..(Len(body) - 1) : body[i] = IF i % 2 = 0 THEN "0" ELSE ","
    THEN [some |-> TRUE, value |-> Zeros((Len(body) - 1) \div 2)]
    ELSE [some |-> FALSE, value |-> NoValue]

\* serde_json::from_slice accepts the body
ValidJson(body) == from_slice(body).some

\* lines 7-36: one turn of the header loop
ReadHeaderLine ==
    /\ dpc = "headers"
    /\ LET r == read_line(stream)
           line == trim_end_matches(r.line)
           h == split_once(line, ":")
           len == parse_usize(trim(h.value))
       IN
       /\ stream' = r.rest
       /\ IF Len(r.line) = 0
          THEN /\ decoded' = IF ~content_length.some
                             THEN "Ok(None)" ELSE "Err(EOF while reading MCP headers)"
               /\ dpc' = "done"
               /\ UNCHANGED <<content_length, lines_read>>
          ELSE IF line = <<>>
          THEN /\ IF content_length.some
                  THEN dpc' = "body" /\ UNCHANGED decoded
                  ELSE dpc' = "done" /\ decoded' = "Err(Missing Content-Length)"
               /\ UNCHANGED <<content_length, lines_read>>
          ELSE /\ lines_read' = lines_read + 1
               /\ IF h.some /\ IsContentLength(h.name)
                  THEN IF len.some
                       THEN /\ content_length' = len
                            /\ UNCHANGED <<dpc, decoded>>
                       ELSE /\ dpc' = "done"
                            /\ decoded' = "Err(Invalid Content-Length)"
                            /\ UNCHANGED content_length
                  ELSE UNCHANGED <<content_length, dpc, decoded>>
    /\ UNCHANGED <<input, value, sent, outbox, received>>
    /\ UNCHANGED <<installVars, rootVars, serverVars, targetVars, payloadVars, textVars>>

\* mutant: a body cut short by the end of the stream is parsed as it is
ReadBody_AcceptsShort ==
    /\ dpc = "body"
    /\ dpc' = "done"
    /\ LET n == IF Len(stream) < content_length.len THEN Len(stream) ELSE content_length.len
           body == from_slice(SubSeq(stream, 1, n))
       IN /\ decoded' = IF body.some THEN "Ok(Some)" ELSE "Err(Invalid JSON body)"
          /\ value' = body.value
          /\ stream' = SubSeq(stream, n + 1, Len(stream))
    /\ UNCHANGED <<content_length, lines_read, input, sent, outbox, received>>
    /\ UNCHANGED <<installVars, rootVars, serverVars, targetVars, payloadVars, textVars>>

\* lines 46-54: read_exact, then serde_json::from_slice
ReadBody ==
    /\ dpc = "body"
    /\ dpc' = "done"
    /\ IF Len(stream) < content_length.len
       THEN /\ decoded' = "Err(UnexpectedEof)"
            /\ stream' = <<>>
            /\ UNCHANGED value
       ELSE LET body == from_slice(SubSeq(stream, 1, content_length.len)) IN
            /\ decoded' = IF body.some THEN "Ok(Some)" ELSE "Err(Invalid JSON body)"
            /\ value' = body.value
            /\ stream' = SubSeq(stream, content_length.len + 1, Len(stream))
    /\ UNCHANGED <<content_length, lines_read, input, sent, outbox, received>>
    /\ UNCHANGED <<installVars, rootVars, serverVars, targetVars, payloadVars, textVars>>

\* mutant: the length header counts a line feed after the body
write_mcp_message_CountsLineFeed(v) ==
    <<"CL", ":", " ">> \o to_string(Len(to_vec(v)) + 1) \o <<"\r", "\n", "\r", "\n">>
        \o to_vec(v)

\* protocol.rs 57-67: the bytes write_mcp_message puts on the writer
write_mcp_message(v) ==
    <<"CL", ":", " ">> \o to_string(Len(to_vec(v))) \o <<"\r", "\n", "\r", "\n">>
        \o to_vec(v)

\* protocol.rs 57-67: the next value is written; after the last one the
\* reader is handed the stream
WriteMcpMessage ==
    /\ dpc = "write"
    /\ outbox # <<>>
    /\ stream' = stream \o write_mcp_message(Head(outbox))
    /\ outbox' = Tail(outbox)
    /\ IF Tail(outbox) = <<>>
       THEN dpc' = "headers" /\ input' = stream'
       ELSE UNCHANGED <<dpc, input>>
    /\ UNCHANGED <<content_length, lines_read, decoded, value, sent, received>>
    /\ UNCHANGED <<installVars, rootVars, serverVars, targetVars, payloadVars, textVars>>

\* main.rs 20-22: the message is taken and read_mcp_message is called again
DecodeAgain ==
    /\ dpc = "done"
    /\ decoded = "Ok(Some)"
    /\ received' = Append(received, value)
    /\ content_length' = NoLength
    /\ lines_read' = 0
    /\ decoded' = "pending"
    /\ value' = NoValue
    /\ input' = stream
    /\ dpc' = "headers"
    /\ UNCHANGED <<stream, sent, outbox>>
    /\ UNCHANGED <<installVars, rootVars, serverVars, targetVars, payloadVars, textVars>>

\* the header lines and the rest of a stream the reader may be handed
HeaderLines ==
    {<<"CL", ":", " ", "2", "\r", "\n">>,
     <<"cl", ":", "1", "\n">>,
     <<"CL", ":", " ", "X", "\r", "\n">>,
     <<"X", ":", " ", "1", "\r", "\n">>,
     <<"X", "\n">>}

StreamTails ==
    {<<>>,
     <<"X">>,
     <<"\r", "\n">>,
     <<"\r", "\n", "{", "}">>,
     <<"\n", "1">>,
     <<"\n", "{">>,
     <<"\r", "\n", "X", "X">>,
     <<"\n", "{", "}", "CL", ":", "1", "\n", "\n", "0">>}

RECURSIVE HeaderBlocks(_)
HeaderBlocks(n) ==
    IF n = 0 THEN {<<>>}
    ELSE HeaderBlocks(n - 1)
         \cup {b \o l : b \in HeaderBlocks(n - 1), l \in HeaderLines}

Streams == {b \o t : b \in HeaderBlocks(MaxHeaderLines), t \in StreamTails}

IdleDecode ==
    /\ stream = <<>>
    /\ content_length = NoLength
    /\ lines_read = 0
    /\ dpc = "idle"
    /\ decoded = "pending"
    /\ input = <<>>
    /\ value = NoValue
    /\ sent = <<>>
    /\ outbox = <<>>
    /\ received = <<>>

InitDecode ==
    /\ stream \in Streams
    /\ content_length = NoLength
    /\ lines_read = 0
    /\ dpc = "headers"
    /\ decoded = "pending"
    /\ input = stream
    /\ value = NoValue
    /\ sent = <<>>
    /\ outbox = <<>>
    /\ received = <<>>

\* the values a writer sends: the empty object, numbers of one and two
\* digits, and an array whose text is eleven bytes long
Values == {Object, Number(0), Number(7), Number(10), Zeros(5)}

\* a writer with up to MaxMessages values to send, and an empty stream
InitRoundTrip ==
    /\ sent \in SeqsUpTo(Values, MaxMessages)
    /\ outbox = sent
    /\ received = <<>>
    /\ stream = <<>>
    /\ input = <<>>
    /\ value = NoValue
    /\ content_length = NoLength
    /\ lines_read = 0
    /\ dpc = IF sent = <<>> THEN "headers" ELSE "write"
    /\ decoded = "pending"

(***************************************************************************)
(* The control loop (main.rs 12-36), the dispatcher (mcp.rs 133-285) and   *)
(* the tool executors (tools/format.rs 133-195, tools/lint.rs 93-164).     *)
(* The server is process "A" of the lifecycle manager.                     *)
(***************************************************************************)
Server == "A"

\* tools/call arguments, by what validation reads of them: the outcome of
\* resolve_target_files (an error, or the number of files in the set), whether
\* every typed getter accepts its field, indent_size / max_line_length, and
\* list_rules.
NoSize == [some |-> FALSE, value |-> 0]
Sizes == {NoSize, [some |-> TRUE, value |-> 0], [some |-> TRUE, value |-> 1]}

Targets == {[ok |-> FALSE, n |-> 0]} \cup [ok : {TRUE}, n : 0..MaxFiles]

\* as_object(None): an empty map
EmptyArguments ==
    [kind |-> "absent", targets |-> [ok |-> TRUE, n |-> 0], types_ok |-> TRUE,
     size |-> NoSize, list_rules |-> FALSE]

NonObjectArguments == [EmptyArguments EXCEPT !.kind = "nonobject"]

ObjectArguments(tool) ==
    [kind : {"object"}, targets : Targets, types_ok : BOOLEAN, size : Sizes,
     list_rules : IF tool = "gdscript_lint" THEN BOOLEAN ELSE {FALSE}]

ToolNames == {"gdscript_format", "gdscript_lint"}

\* the JSON values read_mcp_message can hand to handle_request; an id or a
\* method that is "absent" is not a member of the value
Ids == {"absent", "null", "1"}

PlainMessages ==
    [id : Ids,
     method : {"absent", "nonstring", "initialize", "ping", "tools/list", "other"},
     name : {"absent"}, arguments : {EmptyArguments}]

CallMessages ==
    [id : Ids, method : {"tools/call"}, name : {"absent", "other"},
     arguments : {EmptyArguments, NonObjectArguments}]
    \cup UNION {[id : Ids, method : {"tools/call"}, name : {t},
                 arguments : {EmptyArguments, NonObjectArguments}
                             \cup ObjectArguments(t)] : t \in ToolNames}

Messages == PlainMessages \cup CallMessages

NoMessage ==
    [id |-> "absent", method |-> "absent", name |-> "absent",
     arguments |-> EmptyArguments]

\* A response: `members` are the members of the JSON object, `error` those of
\* its error member; kind, code and is_error read them.
NoResponse ==
    [kind |-> "none", id |-> "absent", code |-> 0, is_error |-> FALSE,
     members |-> {}, error |-> {}]

\* protocol.rs 69-75
success_response(id, is_error) ==
    [kind |-> "result", id |-> id, code |-> 0, is_error |-> is_error,
     members |-> {"jsonrpc", "id", "result"}, error |-> {}]

\* mutant: an error response that also carries a result member
error_response_WithResult(id, code) ==
    [kind |-> "error", id |-> id, code |-> code, is_error |-> FALSE,
     members |-> {"jsonrpc", "id", "result", "error"}, error |-> {"code", "message"}]

\* protocol.rs 77-86
error_response(id, code) ==
    [kind |-> "error", id |-> id, code |-> code, is_error |-> FALSE,
     members |-> {"jsonrpc", "id", "error"}, error |-> {"code", "message"}]

\* mutant: a message without an id is answered like any other
Dispatch_AnswersNotifications(m) ==
    IF m.method \in {"absent", "nonstring"} THEN [to |-> "ignore", response |-> NoResponse]
    ELSE IF m.method \in {"initialize", "ping", "tools/list"}
    THEN [to |-> "respond", response |-> success_response(m.id, FALSE)]
    ELSE IF m.method = "tools/call"
    THEN IF m.arguments.kind = "nonobject"
         THEN [to |-> "respond", response |-> error_response(m.id, -32602)]
         ELSE IF m.name \in ToolNames
         THEN [to |-> m.name, response |-> NoResponse]
         ELSE [to |-> "respond", response |-> error_response(m.id, -32602)]
    ELSE [to |-> "respond", response |-> error_response(m.id, -32601)]

\* mutant: arguments that are not an object are taken as an empty object
Dispatch_NonObjectAsEmpty(m) ==
    IF m.id = "absent" THEN [to |-> "ignore", response |-> NoResponse]
    ELSE IF m.method \in {"absent", "nonstring"}
    THEN [to |-> "ignore", response |-> NoResponse]
    ELSE IF m.method \in {"initialize", "ping", "tools/list"}
    THEN [to |-> "respond", response |-> success_response(m.id, FALSE)]
    ELSE IF m.method = "tools/call"
    THEN IF m.name \in ToolNames
         THEN [to |-> m.name, response |-> NoResponse]
         ELSE [to |-> "respond", response |-> error_response(m.id, -32602)]
    ELSE [to |-> "respond", response |-> error_response(m.id, -32601)]

\* mutant: a message with an id and no usable method gets 'Method not found'
Dispatch_ErrorOnMissingMethod(m) ==
    IF m.id = "absent" THEN [to |-> "ignore", response |-> NoResponse]
    ELSE IF m.method \in {"absent", "nonstring"}
    THEN [to |-> "respond", response |-> error_response(m.id, -32601)]
    ELSE IF m.method \in {"initialize", "ping", "tools/list"}
    THEN [to |-> "respond", response |-> success_response(m.id, FALSE)]
    ELSE IF m.method = "tools/call"
    THEN IF m.arguments.kind = "nonobject"
         THEN [to |-> "respond", response |-> error_response(m.id, -32602)]
         ELSE IF m.name \in ToolNames
         THEN [to |-> m.name, response |-> NoResponse]
         ELSE [to |-> "respond", response |-> error_response(m.id, -32602)]
    ELSE [to |-> "respond", response |-> error_response(m.id, -32601)]

\* mcp.rs 133-178, 280-284: where handle_request sends the message
Dispatch(m) ==
    IF m.id = "absent" THEN [to |-> "ignore", response |-> NoResponse]
    ELSE IF m.method \in {"absent", "nonstring"}
    THEN [to |-> "ignore", response |-> NoResponse]
    ELSE IF m.method \in {"initialize", "ping", "tools/list"}
    THEN [to |-> "respond", response |-> success_response(m.id, FALSE)]
    ELSE IF m.method = "tools/call"
    THEN IF m.arguments.kind = "nonobject"
         THEN [to |-> "respond", response |-> error_response(m.id, -32602)]
         ELSE IF m.name \in ToolNames
         THEN [to |-> m.name, response |-> NoResponse]
         ELSE [to |-> "respond", response |-> error_response(m.id, -32602)]
    ELSE [to |-> "respond", response |-> error_response(m.id, -32601)]

\* targets.rs 139-168: whether the target set resolves
resolve_target_files(a, non_empty) ==
    /\ a.targets.ok
    /\ ~(non_empty /\ a.targets.n = 0)

\* tools/format.rs 137-149: everything ahead of ensure_binary
FormatArgumentsOk(a) ==
    /\ resolve_target_files(a, TRUE)
    /\ a.types_ok
    /\ ~(a.size.some /\ a.size.value < 1)

\* mutant: an empty target set is accepted whatever list_rules is
LintArgumentsOk_EmptyAllowed(a) ==
    /\ resolve_target_files(a, FALSE)
    /\ a.types_ok
    /\ ~(a.size.some /\ a.size.value < 1)

\* tools/lint.rs 97-116
LintArgumentsOk(a) ==
    /\ resolve_target_files(a, FALSE)
    /\ a.types_ok
    /\ ~(a.size.some /\ a.size.value < 1)
    /\ ~(a.targets.n = 0 /\ ~a.list_rules)

ArgumentsOk(tool, a) ==
    IF tool = "gdscript_format" THEN FormatArgumentsOk(a) ELSE LintArgumentsOk(a)

\* the resolved target set: n file names in sorted order
TargetFiles(n) == [i \in 1..n |-> i]

\* mutant: a tool that returned Err is answered with a JSON-RPC error
ToolErrResponse_ProtocolError(id) == error_response(id, -32603)

\* mcp.rs 196-215, 259-277: the Err(text) arms
ToolErrResponse(id) == success_response(id, TRUE)

\* mcp.rs 182-195, 220-257: the Ok(result) arms: isError = !result.success
ToolOkResponse(id, success) == success_response(id, ~success)

\* what the child process printed, as parse_lint_diagnostics reads it: the
\* severity of each diagnostic line, which is whatever text stood in that place
Severities == {"error", "warning", "info"}

DiagnosticLists == SeqsUpTo(Severities, MaxLintLines)

\* lint.rs 142-149: diagnostics whose severity is `sev`
RECURSIVE CountSeverity(_, _)
CountSeverity(diagnostics, sev) ==
    IF diagnostics = <<>> THEN 0
    ELSE (IF Head(diagnostics) = sev THEN 1 ELSE 0) + CountSeverity(Tail(diagnostics), sev)

NoResult ==
    [tool |-> "none", success |-> FALSE, processed_count |-> 0, failures |-> <<>>,
     diagnostics |-> <<>>, error_count |-> 0, warning_count |-> 0]

\* mutant: processed_count counts the files that were formatted
FormatToolResult_CountsFormatted(target_files, failed) ==
    [tool |-> "format", success |-> (failed = <<>>),
     processed_count |-> Len(target_files) - Len(failed), failures |-> failed,
     diagnostics |-> <<>>, error_count |-> 0, warning_count |-> 0]

\* format.rs 188-194
FormatToolResult(target_files, failed) ==
    [tool |-> "format", success |-> (failed = <<>>),
     processed_count |-> Len(target_files), failures |-> failed,
     diagnostics |-> <<>>, error_count |-> 0, warning_count |-> 0]

\* mutant: a run that reports an error-severity diagnostic is not a success
LintSuccess_NoErrorDiagnostics(status, diagnostics) ==
    status = "exit 0" /\ CountSeverity(diagnostics, "error") = 0

\* lint.rs 150: output.status.success()
LintSuccess(status, diagnostics) == status = "exit 0"

\* lint.rs 141-163
LintToolResult(status, diagnostics) ==
    [tool |-> "lint", success |-> LintSuccess(status, diagnostics),
     processed_count |-> 0, failures |-> <<>>, diagnostics |-> diagnostics,
     error_count |-> CountSeverity(diagnostics, "error"),
     warning_count |-> CountSeverity(diagnostics, "warning")]

ServerFrame == UNCHANGED <<rootVars, decodeVars, targetVars, payloadVars, textVars>>

NoExchange == [id |-> "none", method |-> "none", response |-> NoResponse, written |-> 0]

\* main.rs 20, 33: the loop body's locals go out of scope
NextIteration(written) ==
    /\ last_exchange' = [id |-> message.id, method |-> message.method,
                         response |-> response', written |-> written]
    /\ message' = NoMessage
    /\ binary' = None
    /\ files' = <<>>
    /\ failures' = <<>>
    /\ spawn_log' = <<>>
    /\ tool_result' = NoResult
    /\ spc' = "read"

\* main.rs 13-14, formatter_manager.rs 42-56: FormatterManager::new
ManagerNew ==
    /\ spc = "start"
    /\ \E e \in CacheEnvs, client_ok \in BOOLEAN :
        IF resolve_cache_root(e).state = "Err"
        THEN /\ spc' = "exited"
             /\ exit_cause' = IF e.custom_set THEN "custom_cache_dir"
                                              ELSE "cache_candidates"
        ELSE IF ~client_ok
        THEN spc' = "exited" /\ exit_cause' = "http_client"
        ELSE spc' = "read" /\ UNCHANGED exit_cause
    /\ UNCHANGED <<message, response, last_exchange, binary, files, failures, spawn_log, tool_result>>
    /\ UNCHANGED installVars
    /\ ServerFrame

\* mutant: a malformed frame is skipped and the loop reads on
ReadMessage_ContinuesAfterError ==
    /\ spc = "read"
    /\ \E r \in {"Ok(Some)", "Ok(None)", "Err"} :
        IF r = "Ok(Some)"
        THEN /\ \E m \in Messages : message' = m
             /\ spc' = "handle"
             /\ UNCHANGED exit_cause
        ELSE /\ spc' = IF r = "Ok(None)" THEN "exited" ELSE "read"
             /\ exit_cause' = IF r = "Ok(None)" THEN "eof" ELSE "framing"
             /\ UNCHANGED message
    /\ response' = NoResponse
    /\ last_exchange' = NoExchange
    /\ UNCHANGED <<binary, files, failures, spawn_log, tool_result>>
    /\ UNCHANGED installVars
    /\ ServerFrame

\* main.rs 21-28: read_mcp_message gives a message, the end of input, or an
\* error
ReadMessage ==
    /\ spc = "read"
    /\ \E r \in {"Ok(Some)", "Ok(None)", "Err"} :
        IF r = "Ok(Some)"
        THEN /\ \E m \in Messages : message' = m
             /\ spc' = "handle"
             /\ UNCHANGED exit_cause
        ELSE /\ spc' = "exited"
             /\ exit_cause' = IF r = "Ok(None)" THEN "eof" ELSE "framing"
             /\ UNCHANGED message
    /\ response' = NoResponse
    /\ last_exchange' = NoExchange
    /\ UNCHANGED <<binary, files, failures, spawn_log, tool_result>>
    /\ UNCHANGED installVars
    /\ ServerFrame

\* main.rs 30, mcp.rs 133-178: a message that needs no tool
HandlePlain ==
    /\ spc = "handle"
    /\ Dispatch(message).to \in {"ignore", "respond"}
    /\ response' = Dispatch(message).response
    /\ IF Dispatch(message).to = "ignore"
       THEN NextIteration(0)
       ELSE /\ spc' = "write"
            /\ UNCHANGED <<message, last_exchange, binary, files, failures, spawn_log, tool_result>>
    /\ UNCHANGED exit_cause
    /\ UNCHANGED installVars
    /\ ServerFrame

\* mcp.rs 181/219, format.rs 137-149, lint.rs 97-116: the tool rejects its
\* arguments
HandleToolRejected ==
    /\ spc = "handle"
    /\ Dispatch(message).to \in ToolNames
    /\ ~ArgumentsOk(message.name, message.arguments)
    /\ response' = ToolErrResponse(message.id)
    /\ spc' = "write"
    /\ UNCHANGED <<exit_cause, message, last_exchange, binary, files, failures, spawn_log, tool_result>>
    /\ UNCHANGED installVars
    /\ ServerFrame

\* format.rs 151, lint.rs 118: the arguments are accepted and the tool calls
\* ensure_binary
HandleToolAcquire ==
    /\ spc = "handle"
    /\ Dispatch(message).to \in ToolNames
    /\ ArgumentsOk(message.name, message.arguments)
    /\ files' = TargetFiles(message.arguments.targets.n)
    /\ EnsureBinaryCall(Server)
    /\ spc' = "acquire"
    /\ UNCHANGED <<exit_cause, message, response, last_exchange, binary, failures, spawn_log, tool_result>>
    /\ ServerFrame

\* mutant: a failed acquisition ends the process
EnsureBinaryDone_Fatal ==
    /\ spc = "acquire"
    /\ EnsureBinaryReturn(Server)
    /\ binary' = result[Server]
    /\ IF result[Server] = "Err"
       THEN /\ spc' = "exited"
            /\ exit_cause' = "acquisition"
            /\ UNCHANGED response
       ELSE /\ spc' = IF message.name = "gdscript_format" THEN "format" ELSE "lint"
            /\ UNCHANGED <<response, exit_cause>>
    /\ UNCHANGED <<message, last_exchange, files, failures, spawn_log, tool_result>>
    /\ ServerFrame

\* mutant: the tool goes on to its child processes whatever ensure_binary gave
EnsureBinaryDone_SpawnsAnyway ==
    /\ spc = "acquire"
    /\ EnsureBinaryReturn(Server)
    /\ binary' = result[Server]
    /\ spc' = IF message.name = "gdscript_format" THEN "format" ELSE "lint"
    /\ UNCHANGED response
    /\ UNCHANGED <<exit_cause, message, last_exchange, files, failures, spawn_log, tool_result>>
    /\ ServerFrame

\* format.rs 151, lint.rs 118: ensure_binary returns; `?` turns its Err into
\* the tool's Err
EnsureBinaryDone ==
    /\ spc = "acquire"
    /\ EnsureBinaryReturn(Server)
    /\ binary' = result[Server]
    /\ IF result[Server] = "Err"
       THEN /\ response' = ToolErrResponse(message.id)
            /\ spc' = "write"
       ELSE /\ spc' = IF message.name = "gdscript_format" THEN "format" ELSE "lint"
            /\ UNCHANGED response
    /\ UNCHANGED <<exit_cause, message, last_exchange, files, failures, spawn_log, tool_result>>
    /\ ServerFrame

ChildOutcomes == {"exit 0", "exit 1", "spawn failed"}

\* mutant: the loop ends at the first file that fails
FormatOneFile_StopsAtFailure ==
    /\ spc = "format"
    /\ Len(spawn_log) < Len(files)
    /\ \E o \in ChildOutcomes :
        LET file == files[Len(spawn_log) + 1]
            fails == IF o = "exit 0" THEN failures ELSE Append(failures, file)
        IN
        /\ spawn_log' = Append(spawn_log, [files |-> <<file>>, outcome |-> o])
        /\ failures' = fails
        /\ IF Len(spawn_log) + 1 = Len(files) \/ o # "exit 0"
           THEN /\ tool_result' = FormatToolResult(files, fails)
                /\ response' = ToolOkResponse(message.id, tool_result'.success)
                /\ spc' = "write"
           ELSE UNCHANGED <<tool_result, response, spc>>
    /\ UNCHANGED <<exit_cause, message, last_exchange, binary, files>>
    /\ UNCHANGED installVars
    /\ ServerFrame

\* format.rs 154-194: one file per child process; after the last one the
\* result is built and, in mcp.rs 182-195, the response
FormatOneFile ==
    /\ spc = "format"
    /\ Len(spawn_log) < Len(files)
    /\ \E o \in ChildOutcomes :
        LET file == files[Len(spawn_log) + 1]
            fails == IF o = "exit 0" THEN failures ELSE Append(failures, file)
        IN
        /\ spawn_log' = Append(spawn_log, [files |-> <<file>>, outcome |-> o])
        /\ failures' = fails
        /\ IF Len(spawn_log) + 1 = Len(files)
           THEN /\ tool_result' = FormatToolResult(files, fails)
                /\ response' = ToolOkResponse(message.id, tool_result'.success)
                /\ spc' = "write"
           ELSE UNCHANGED <<tool_result, response, spc>>
    /\ UNCHANGED <<exit_cause, message, last_exchange, binary, files>>
    /\ UNCHANGED installVars
    /\ ServerFrame

\* lint.rs 119-163: one child process for all targets; mcp.rs 220-277
LintAllFiles ==
    /\ spc = "lint"
    /\ \E o \in ChildOutcomes, printed \in DiagnosticLists :
        /\ o = "spawn failed" => printed = <<>>
        /\ spawn_log' = Append(spawn_log, [files |-> files, outcome |-> o])
        /\ IF o = "spawn failed"
           THEN /\ response' = ToolErrResponse(message.id)
                /\ UNCHANGED tool_result
           ELSE /\ tool_result' = LintToolResult(o, printed)
                /\ response' = ToolOkResponse(message.id, tool_result'.success)
    /\ spc' = "write"
    /\ UNCHANGED <<exit_cause, message, last_exchange, binary, files, failures>>
    /\ UNCHANGED installVars
    /\ ServerFrame

\* mutant: the response is left unwritten when the loop reads again
WriteResponse_Unflushed ==
    /\ spc = "write"
    /\ UNCHANGED response
    /\ \E ok \in BOOLEAN :
        IF ok
        THEN /\ NextIteration(0)
             /\ UNCHANGED exit_cause
        ELSE /\ spc' = "exited"
             /\ exit_cause' = "write"
             /\ UNCHANGED <<message, last_exchange, binary, files, failures, spawn_log, tool_result>>
    /\ UNCHANGED installVars
    /\ ServerFrame

\* main.rs 30-32, protocol.rs 57-67: write_mcp_message; its error ends main
WriteResponse ==
    /\ spc = "write"
    /\ UNCHANGED response
    /\ \E ok \in BOOLEAN :
        IF ok
        THEN /\ NextIteration(1)
             /\ UNCHANGED exit_cause
        ELSE /\ spc' = "exited"
             /\ exit_cause' = "write"
             /\ UNCHANGED <<message, last_exchange, binary, files, failures, spawn_log, tool_result>>
    /\ UNCHANGED installVars
    /\ ServerFrame

\* ensure_binary's own steps, taken by the server
EnsureBinaryStep ==
    \/ FetchLatestRelease(Server)
    \/ SelectAndReadVersion(Server)
    \/ CompareVersion(Server)
    \/ DownloadAsset(Server)
    \/ CreateTemp(Server)
    \/ CopyChunk(Server)
    \/ SetExecutable(Server)
    \/ RenameIntoPlace(Server)
    \/ OpenVersionFile(Server)
    \/ WriteVersionFile(Server)
    \/ Fallback(Server)

IdleServer ==
    /\ spc = "idle"
    /\ exit_cause = None
    /\ message = NoMessage
    /\ response = NoResponse
    /\ last_exchange = NoExchange
    /\ binary = None
    /\ files = <<>>
    /\ failures = <<>>
    /\ spawn_log = <<>>
    /\ tool_result = NoResult

InitServer ==
    /\ spc = "start"
    /\ exit_cause = None
    /\ message = NoMessage
    /\ response = NoResponse
    /\ last_exchange = NoExchange
    /\ binary = None
    /\ files = <<>>
    /\ failures = <<>>
    /\ spawn_log = <<>>
    /\ tool_result = NoResult

(***************************************************************************)
(* Target resolution (targets.rs 139-168).  A path string is modelled by  *)
(* its rank among the path strings in String's (byte-wise) order.          *)
(***************************************************************************)
Paths == 1..MaxPath

Range(q) == {q[i] : i \in DOMAIN q}

\* the value under a key of the arguments map: absent, not of the type its
\* getter wants, or given
KeyKinds == {"absent", "invalid", "given"}

\* `files`: absent, ill-typed, or an array of strings in any order, with
\* repetitions
FilesValues ==
    {[kind |-> "absent", value |-> <<>>], [kind |-> "invalid", value |-> <<>>]}
    \cup [kind : {"given"}, value : SeqsUpTo(Paths, MaxListed)]

\* collect_dir_files (94-137): an error, or the files of the directory that
\* pass the patterns, each once, in the order the walk meets them
WalkResults ==
    {[ok |-> FALSE, files |-> <<>>]}
    \cup [ok : {TRUE},
          files : {q \in SeqsUpTo(Paths, MaxListed) :
                      \A i, j \in DOMAIN q : i # j => q[i] # q[j]}]

NoWalk == [ok |-> TRUE, files |-> <<>>]

ArgumentMaps ==
    [files : FilesValues, dir : KeyKinds, include : KeyKinds, exclude : KeyKinds]

NoArguments ==
    [files |-> [kind |-> "absent", value |-> <<>>], dir |-> "absent",
     include |-> "absent", exclude |-> "absent"]

Resolving == [state |-> "pending", error |-> "", files |-> <<>>]
OkFiles(q) == [state |-> "Ok", error |-> "", files |-> q]
ErrFiles(text) == [state |-> "Err", error |-> text, files |-> <<>>]

UsageError == "include/exclude can only be used with dir"

\* mutant: a Vec instead of a BTreeSet
BTreeSetInsert_Push(set, x) == Append(set, x)

\* lines 149-158: BTreeSet::insert, the set written as the sequence its
\* iterator gives
RECURSIVE BTreeSetInsert(_, _)
BTreeSetInsert(set, x) ==
    IF set = <<>> THEN <<x>>
    ELSE IF x = Head(set) THEN set
    ELSE IF x < Head(set) THEN <<x>> \o set
    ELSE <<Head(set)>> \o BTreeSetInsert(Tail(set), x)

\* lines 143-147: the typed getters, in the order they are called
FirstTypeError(a) ==
    IF a.files.kind = "invalid" THEN "files must be an array of strings"
    ELSE IF a.dir = "invalid" THEN "dir must be a string"
    ELSE IF a.include = "invalid" THEN "include must be an array of strings"
    ELSE IF a.exclude = "invalid" THEN "exclude must be an array of strings"
    ELSE ""

\* mutant: only `include` is looked for
PatternsGiven_IncludeOnly(a) == a.include # "absent"

\* line 159: contains_key("include") || contains_key("exclude")
PatternsGiven(a) == a.include # "absent" \/ a.exclude # "absent"

TargetFrame == UNCHANGED <<installVars, rootVars, decodeVars, serverVars, payloadVars, textVars>>

\* lines 143-149
ParseArguments ==
    /\ tpc = "start"
    /\ IF FirstTypeError(arguments) # ""
       THEN /\ resolved' = ErrFiles(FirstTypeError(arguments))
            /\ tpc' = "done"
            /\ UNCHANGED pending
       ELSE /\ pending' = arguments.files.value
            /\ tpc' = "direct"
            /\ UNCHANGED resolved
    /\ UNCHANGED <<scan, arguments, required, walk, unique_files>>
    /\ TargetFrame

\* lines 150-152
InsertDirectFile ==
    /\ tpc = "direct"
    /\ pending # <<>>
    /\ unique_files' = BTreeSetInsert(unique_files, Head(pending))
    /\ pending' = Tail(pending)
    /\ UNCHANGED <<scan, arguments, required, walk, tpc, resolved>>
    /\ TargetFrame

\* lines 154-161
CollectDirFiles ==
    /\ tpc = "direct"
    /\ pending = <<>>
    /\ IF arguments.dir = "given"
       THEN IF walk.ok
            THEN /\ pending' = walk.files
                 /\ tpc' = "dir"
                 /\ UNCHANGED resolved
            ELSE /\ resolved' = ErrFiles("collect_dir_files")
                 /\ tpc' = "done"
                 /\ UNCHANGED pending
       ELSE IF PatternsGiven(arguments)
            THEN /\ resolved' = ErrFiles(UsageError)
                 /\ tpc' = "done"
                 /\ UNCHANGED pending
            ELSE /\ tpc' = "dir"
                 /\ UNCHANGED <<pending, resolved>>
    /\ UNCHANGED <<scan, arguments, required, walk, unique_files>>
    /\ TargetFrame

\* lines 156-158
InsertDirFile ==
    /\ tpc = "dir"
    /\ pending # <<>>
    /\ unique_files' = BTreeSetInsert(unique_files, Head(pending))
    /\ pending' = Tail(pending)
    /\ UNCHANGED <<scan, arguments, required, walk, tpc, resolved>>
    /\ TargetFrame

\* lines 163-167
FinishResolve ==
    /\ tpc = "dir"
    /\ pending = <<>>
    /\ resolved' = IF required /\ unique_files = <<>>
                   THEN ErrFiles("Either files or dir must resolve to at least one file")
                   ELSE OkFiles(unique_files)
    /\ tpc' = "done"
    /\ UNCHANGED <<scan, arguments, required, walk, unique_files, pending>>
    /\ TargetFrame

\* the entries under the scan root, by path: a regular file named *.gd,
\* another regular file, or a directory named *.gd
EntryKinds == {"gd file", "other file", "gd dir"}

Trees == [Paths -> EntryKinds]

\* glob patterns: the default, and one that matches the first path only
DefaultInclude == "**/*.gd"
Patterns == {DefaultInclude, "first"}

NoScan == [tree |-> [p \in Paths |-> "gd dir"], include |-> {}, exclude |-> {}]

\* GlobSet::is_match on the root-relative path
GlobSetMatches(globs, p, tree) ==
    \/ DefaultInclude \in globs /\ tree[p] \in {"gd file", "gd dir"}
    \/ "first" \in globs /\ p = 1

\* line 145-147: include defaults to **/*.gd, exclude to nothing
IncludeOf(a, s) == IF a.include = "given" THEN s.include ELSE {DefaultInclude}
ExcludeOf(a, s) == IF a.exclude = "given" THEN s.exclude ELSE {}

\* mutant: the exclude patterns are not applied
collect_dir_files_NoExclude(tree, include, exclude) ==
    {p \in Paths : /\ tree[p] # "gd dir"
                   /\ GlobSetMatches(include, p, tree)}

\* lines 110-136: the files the walk keeps
collect_dir_files(tree, include, exclude) ==
    {p \in Paths : /\ tree[p] # "gd dir"
                   /\ GlobSetMatches(include, p, tree)
                   /\ ~GlobSetMatches(exclude, p, tree)}

\* the orders a walk can meet the files of S in
Orderings(S) ==
    {q \in [1..Cardinality(S) -> S] : \A i, j \in 1..Cardinality(S) : i # j => q[i] # q[j]}

IdleTargets ==
    /\ scan = NoScan
    /\ arguments = NoArguments
    /\ required = FALSE
    /\ walk = NoWalk
    /\ unique_files = <<>>
    /\ pending = <<>>
    /\ tpc = "idle"
    /\ resolved = Resolving

\* a call that names a scan root, or explicit files only: the walk gives
\* the files collect_dir_files keeps, in any order, or fails
InitScan ==
    /\ scan \in [tree : Trees, include : SUBSET Patterns, exclude : SUBSET Patterns]
    /\ arguments \in [files : {f \in FilesValues : f.kind # "invalid" /\ Len(f.value) <= 1},
                      dir : {"given"}, include : {"absent", "given"},
                      exclude : {"absent", "given"}]
    /\ arguments.include = "absent" => scan.include = {}
    /\ arguments.exclude = "absent" => scan.exclude = {}
    /\ required \in BOOLEAN
    /\ walk \in {[ok |-> FALSE, files |-> <<>>]}
               \cup [ok : {TRUE},
                     files : Orderings(collect_dir_files(scan.tree, IncludeOf(arguments, scan),
                                                         ExcludeOf(arguments, scan)))]
    /\ unique_files = <<>>
    /\ pending = <<>>
    /\ tpc = "start"
    /\ resolved = Resolving

InitTargets ==
    /\ scan = NoScan
    /\ arguments \in ArgumentMaps
    /\ required \in BOOLEAN
    /\ walk \in WalkResults
    /\ arguments.dir # "given" => walk = NoWalk
    /\ unique_files = <<>>
    /\ pending = <<>>
    /\ tpc = "start"
    /\ resolved = Resolving

(***************************************************************************)
(* The payload builders: format_structured_content and                     *)
(* render_format_summary (format.rs 96-131), project_lint_diagnostics      *)
(* (lint.rs 66-77) and the lint payload of handle_request (mcp.rs 220-235).*)
(***************************************************************************)
\* format.rs 7
DEFAULT_MAX_FAILURES_RETURNED == 20

\* lint.rs 8
DEFAULT_MAX_DIAGNOSTICS == 500

Min(a, b) == IF a < b THEN a ELSE b

\* Iterator::take
Take(q, n) == SubSeq(q, 1, Min(n, Len(q)))

\* a format outcome: `done` files processed, of which those numbered
\* first..last failed
FormatOutcomes ==
    UNION {{FormatToolResult([i \in 1..done |-> i],
                             [i \in 1..(last - first + 1) |-> first + i - 1]) :
                first \in 1..2, last \in 0..done} : done \in 1..MaxProcessed}

\* lint.rs 104-105: max_diagnostics, DEFAULT_MAX_DIAGNOSTICS when not given
MaxDiagnosticsValues == (0..MaxAsked) \cup {DEFAULT_MAX_DIAGNOSTICS}

LintOutcomes ==
    {LintToolResult(status, printed) :
        status \in {"exit 0", "exit 1"}, printed \in DiagnosticLists}

NoStructured ==
    [members |-> {}, ok |-> FALSE, processed_count |-> 0, failed_count |-> 0,
     truncated |-> FALSE, list |-> <<>>, total_diagnostics |-> 0,
     error_count |-> 0, warning_count |-> 0]

NoSummary == [text |-> "", failed_count |-> 0, total |-> 0]

\* format.rs 96-102
render_format_summary(r) ==
    IF r.success
    THEN [text |-> "Format ok.", failed_count |-> 0, total |-> 0]
    ELSE [text |-> "Format failed. failed_count={}.", failed_count |-> Len(r.failures),
          total |-> 0]

\* mutant: failed_count is the length of the list returned
format_structured_content_CountsReturned(r) ==
    IF r.success
    THEN [NoStructured EXCEPT !.members = {"ok", "processed_count"}, !.ok = TRUE,
                              !.processed_count = r.processed_count]
    ELSE [members |-> {"ok", "processed_count", "failed_count", "failures_truncated",
                       "failures"},
          ok |-> FALSE,
          processed_count |-> r.processed_count,
          failed_count |-> Len(Take(r.failures, DEFAULT_MAX_FAILURES_RETURNED)),
          truncated |-> Len(r.failures) > DEFAULT_MAX_FAILURES_RETURNED,
          list |-> Take(r.failures, DEFAULT_MAX_FAILURES_RETURNED),
          total_diagnostics |-> 0, error_count |-> 0, warning_count |-> 0]

\* format.rs 104-131
format_structured_content(r) ==
    IF r.success
    THEN [NoStructured EXCEPT !.members = {"ok", "processed_count"}, !.ok = TRUE,
                              !.processed_count = r.processed_count]
    ELSE [members |-> {"ok", "processed_count", "failed_count", "failures_truncated",
                       "failures"},
          ok |-> FALSE,
          processed_count |-> r.processed_count,
          failed_count |-> Len(r.failures),
          truncated |-> Len(r.failures) > DEFAULT_MAX_FAILURES_RETURNED,
          list |-> Take(r.failures, DEFAULT_MAX_FAILURES_RETURNED),
          total_diagnostics |-> 0, error_count |-> 0, warning_count |-> 0]

\* mutant: the flag is set as soon as the cap is reached
project_lint_diagnostics_AtCap(diagnostics, max_diagnostics) ==
    [projected |-> Take(diagnostics, max_diagnostics),
     truncated |-> Len(diagnostics) >= max_diagnostics]

\* lint.rs 66-77
project_lint_diagnostics(diagnostics, max_diagnostics) ==
    LET projected == Take(diagnostics, max_diagnostics)
    IN [projected |-> projected, truncated |-> Len(diagnostics) > Len(projected)]

\* mutant: the counts are taken over the diagnostics returned
lint_structured_content_CountsReturned(r, max_diagnostics) ==
    LET p == project_lint_diagnostics(r.diagnostics, max_diagnostics)
    IN [members |-> {"ok", "exit_code", "total_diagnostics", "error_count",
                     "warning_count", "max_diagnostics", "diagnostics_truncated",
                     "diagnostics"},
        ok |-> r.success,
        processed_count |-> 0,
        failed_count |-> 0,
        truncated |-> p.truncated,
        list |-> p.projected,
        total_diagnostics |-> Len(r.diagnostics),
        error_count |-> CountSeverity(p.projected, "error"),
        warning_count |-> CountSeverity(p.projected, "warning")]

\* mcp.rs 222-235
lint_structured_content(r, max_diagnostics) ==
    LET p == project_lint_diagnostics(r.diagnostics, max_diagnostics)
    IN [members |-> {"ok", "exit_code", "total_diagnostics", "error_count",
                     "warning_count", "max_diagnostics", "diagnostics_truncated",
                     "diagnostics"},
        ok |-> r.success,
        processed_count |-> 0,
        failed_count |-> 0,
        truncated |-> p.truncated,
        list |-> p.projected,
        total_diagnostics |-> Len(r.diagnostics),
        error_count |-> r.error_count,
        warning_count |-> r.warning_count]

\* lint.rs 79-91
render_lint_summary(r) ==
    [text |-> IF r.success THEN "Lint completed successfully." ELSE "Lint failed.",
     failed_count |-> 0, total |-> Len(r.diagnostics)]

NoOutcome == [result |-> NoResult, max_diagnostics |-> 0]

PayloadFrame == UNCHANGED <<installVars, rootVars, decodeVars, serverVars, targetVars, textVars>>

\* mcp.rs 182-195: the payload of a format outcome
BuildFormatPayload ==
    /\ outcome.result.tool = "format"
    /\ structured = NoStructured
    /\ summary' = render_format_summary(outcome.result)
    /\ structured' = format_structured_content(outcome.result)
    /\ UNCHANGED outcome
    /\ PayloadFrame

\* mcp.rs 220-257: the payload of a lint outcome
BuildLintPayload ==
    /\ outcome.result.tool = "lint"
    /\ structured = NoStructured
    /\ summary' = render_lint_summary(outcome.result)
    /\ structured' = lint_structured_content(outcome.result, outcome.max_diagnostics)
    /\ UNCHANGED outcome
    /\ PayloadFrame

IdlePayload ==
    /\ outcome = NoOutcome
    /\ structured = NoStructured
    /\ summary = NoSummary

InitPayload ==
    /\ outcome \in [result : FormatOutcomes, max_diagnostics : {0}]
                   \cup [result : LintOutcomes, max_diagnostics : MaxDiagnosticsValues]
    /\ structured = NoStructured
    /\ summary = NoSummary

(***************************************************************************)
(* Parsing of a child process's output (tools/format.rs 55-94,            *)
(* tools/lint.rs 22-64).  A text is a sequence of characters; a word the   *)
(* texts below only hold whole (Error, Failed, Unknown, ...) is one        *)
(* element of the sequence.                                                *)
(***************************************************************************)
Placeholder == <<"Unknown", " ", "formatting", " ", "error">>
ErrorMarker == <<"Error", ":", " ", "\"">>
FailedMarker == <<"Failed", " ", "to", " ", "format", " ", "file", " ">>

\* str::find: the first position at which pat occurs from i on, or 0
RECURSIVE find(_, _, _)
find(s, pat, i) ==
    IF i + Len(pat) - 1 > Len(s) THEN 0
    ELSE IF SubSeq(s, i, i + Len(pat) - 1) = pat THEN i
    ELSE find(s, pat, i + 1)

\* str::split_once with a string pattern
split_once_str(s, pat) ==
    LET i == find(s, pat, 1) IN
    IF i = 0 THEN [some |-> FALSE, before |-> <<>>, after |-> <<>>]
    ELSE [some |-> TRUE, before |-> SubSeq(s, 1, i - 1),
          after |-> SubSeq(s, i + Len(pat), Len(s))]

\* str::lines: the text between line feeds; no last line after a final one
RECURSIVE lines(_)
lines(s) ==
    IF s = <<>> THEN <<>>
    ELSE LET i == find(s, <<"\n">>, 1) IN
         IF i = 0 THEN <<s>>
         ELSE <<SubSeq(s, 1, i - 1)>> \o lines(SubSeq(s, i + 1, Len(s)))

\* str::trim_start_matches(c), trim_end_matches(c), trim_matches(c)
RECURSIVE trim_start_matches_char(_, _)
trim_start_matches_char(s, c) ==
    IF s # <<>> /\ Head(s) = c THEN trim_start_matches_char(Tail(s), c) ELSE s

RECURSIVE trim_end_matches_char(_, _)
trim_end_matches_char(s, c) ==
    IF s # <<>> /\ s[Len(s)] = c
    THEN trim_end_matches_char(SubSeq(s, 1, Len(s) - 1), c)
    ELSE s

trim_matches(s, c) == trim_end_matches_char(trim_start_matches_char(s, c), c)

\* the end of the word that starts at t[1]
RECURSIVE WordEnd(_, _)
WordEnd(t, i) ==
    IF i > Len(t) \/ IsWhitespace(t[i]) THEN i - 1 ELSE WordEnd(t, i + 1)

\* str::split_whitespace
RECURSIVE split_whitespace(_)
split_whitespace(s) ==
    LET t == trim_start(s) IN
    IF t = <<>> THEN <<>>
    ELSE <<SubSeq(t, 1, WordEnd(t, 1))>>
            \o split_whitespace(SubSeq(t, WordEnd(t, 1) + 1, Len(t)))

\* [&str]::join
RECURSIVE join(_, _)
join(ws, sep) ==
    IF ws = <<>> THEN <<>>
    ELSE IF Len(ws) = 1 THEN ws[1]
    ELSE ws[1] \o sep \o join(Tail(ws), sep)

\* mutant: the text is trimmed and its inner whitespace kept
normalize_reason_TrimOnly(text) ==
    LET normalized == trim(text) IN
    IF normalized = <<>> THEN Placeholder ELSE normalized

\* format.rs 55-67
normalize_reason(text) ==
    LET normalized == trim(join(split_whitespace(text), <<" ">>)) IN
    IF normalized = <<>> THEN Placeholder ELSE normalized

NoReason == [some |-> FALSE, text |-> <<>>]

\* format.rs 70-78: the first line with the quoted-error marker
RECURSIVE QuotedErrorReason(_)
QuotedErrorReason(ls) ==
    IF ls = <<>> THEN NoReason
    ELSE LET q == split_once_str(Head(ls), ErrorMarker) IN
         IF q.some
         THEN LET trimmed == trim_end_matches_char(q.after, "\"")
                  r == split_once_str(trimmed, <<":", " ">>)
              IN [some |-> TRUE,
                  text |-> normalize_reason(IF r.some THEN r.after ELSE trimmed)]
         ELSE QuotedErrorReason(Tail(ls))

\* format.rs 80-86: the first line with the marker and a colon after it
RECURSIVE FailedToFormatReason(_)
FailedToFormatReason(ls) ==
    IF ls = <<>> THEN NoReason
    ELSE LET q == split_once_str(Head(ls), FailedMarker)
             r == split_once_str(q.after, <<":">>)
         IN IF q.some /\ r.some
            THEN [some |-> TRUE, text |-> normalize_reason(trim_matches(r.after, "\""))]
            ELSE FailedToFormatReason(Tail(ls))

\* mutant: the Failed-to-format marker is looked for first
extract_format_failure_reason_FailedFirst(so, se) ==
    LET a == QuotedErrorReason(lines(se))
        b == FailedToFormatReason(lines(se))
        stderr_reason == normalize_reason(se)
    IN IF b.some THEN b.text
       ELSE IF a.some THEN a.text
       ELSE IF stderr_reason # Placeholder THEN stderr_reason
       ELSE normalize_reason(so)

\* format.rs 69-94
extract_format_failure_reason(so, se) ==
    LET a == QuotedErrorReason(lines(se))
        b == FailedToFormatReason(lines(se))
        stderr_reason == normalize_reason(se)
    IN IF a.some THEN a.text
       ELSE IF b.some THEN b.text
       ELSE IF stderr_reason # Placeholder THEN stderr_reason
       ELSE normalize_reason(so)

TextFrame == UNCHANGED <<installVars, rootVars, decodeVars, serverVars, targetVars, payloadVars>>

\* normalize_reason on the child's stderr
NormalizeReason ==
    /\ rpc = "start"
    /\ reason' = normalize_reason(stderr)
    /\ rpc' = "normalized"
    /\ UNCHANGED <<stdout, stderr, parsed>>
    /\ TextFrame

\* normalize_reason on its own result
NormalizeAgain ==
    /\ rpc = "normalized"
    /\ reason' = normalize_reason(reason)
    /\ rpc' = "renormalized"
    /\ UNCHANGED <<stdout, stderr, parsed>>
    /\ TextFrame

\* format.rs 171-174: the reason of a failed invocation
ExtractReason ==
    /\ rpc = "start"
    /\ reason' = extract_format_failure_reason(stdout, stderr)
    /\ rpc' = "extracted"
    /\ UNCHANGED <<stdout, stderr, parsed>>
    /\ TextFrame

\* the pieces a text is put together from
TextSegments == {ErrorMarker, FailedMarker, <<":">>, <<" ">>, <<"\"">>, <<"\n">>, <<"a">>}

RECURSIVE Texts(_)
Texts(n) ==
    IF n = 0 THEN {<<>>}
    ELSE Texts(n - 1) \cup {t \o g : t \in Texts(n - 1), g \in TextSegments}

\* the stderr of the formatter's own failure report
ExampleStderr ==
    <<"a", " ", "a">> \o ErrorMarker \o FailedMarker
        \o <<"a", ":", " ", "a", " ", "a", "\"">>

Stderrs ==
    Texts(MaxSegments)
        \cup {ExampleStderr, Placeholder,
              <<"Unknown", " ", " ", "formatting", " ", "error", "\n">>}

Stdouts == {<<>>, <<"b">>, <<" ", "b", "\n", " ", "b">>}

NoNumber == [some |-> FALSE, value |-> 0]

\* str::parse::<u64>: digits, with an optional + sign ahead of them
parse_u64(ds) ==
    LET body == IF ds # <<>> /\ Head(ds) = "+" THEN Tail(ds) ELSE ds IN
    IF body # <<>> /\ \A i \in 1..Len(body) : body[i] \in Digits
    THEN [some |-> TRUE, value |-> DecimalValue(body)]
    ELSE NoNumber

\* str::rfind(c)
RECURSIVE rfind(_, _, _)
rfind(s, c, i) == IF i = 0 THEN 0 ELSE IF s[i] = c THEN i ELSE rfind(s, c, i - 1)

\* mutant: the pieces are split off from the left
RECURSIVE rsplitn_FromLeft(_, _, _)
rsplitn_FromLeft(n, s, c) ==
    LET i == IndexOf(s, c, 1) IN
    IF n = 1 \/ i = 0 THEN <<s>>
    ELSE rsplitn_FromLeft(n - 1, SubSeq(s, i + 1, Len(s)), c) \o <<SubSeq(s, 1, i - 1)>>

\* str::rsplitn(n, c): at most n pieces, the last one first
RECURSIVE rsplitn(_, _, _)
rsplitn(n, s, c) ==
    LET i == rfind(s, c, Len(s)) IN
    IF n = 1 \/ i = 0 THEN <<s>>
    ELSE <<SubSeq(s, i + 1, Len(s))>> \o rsplitn(n - 1, SubSeq(s, 1, i - 1), c)

\* lint.rs 26-61: the diagnostics one line gives, none or one
LineDiagnostics(line) ==
    LET trimmed == trim(line)
        split == split_once_str(trimmed, <<":", " ">>)
        parts == rsplitn(4, split.before, ":")
        line_number == parse_u64(parts[3])
    IN IF trimmed = <<>> \/ ~split.some \/ Len(parts) < 4 THEN <<>>
       ELSE IF ~line_number.some THEN <<>>
       ELSE <<[file |-> parts[4], line |-> line_number.value, column |-> "null",
               rule |-> parts[2], severity |-> parts[1], message |-> split.after]>>

\* lint.rs 22-64
RECURSIVE ParseLines(_)
ParseLines(ls) ==
    IF ls = <<>> THEN <<>> ELSE LineDiagnostics(Head(ls)) \o ParseLines(Tail(ls))

parse_lint_diagnostics(so) == ParseLines(lines(so))

\* lint.rs 148: the diagnostics of the linter's stdout
ParseLintDiagnostics ==
    /\ rpc = "start"
    /\ parsed' = parse_lint_diagnostics(stdout)
    /\ rpc' = "parsed"
    /\ UNCHANGED <<stdout, stderr, reason>>
    /\ TextFrame

\* lines the linter may print: a path with or without a colon, a line-number
\* field that is or is not a number, and the rest of the line well formed,
\* with a separator in its message, a field short, or without the separator
LintLines ==
    {file \o <<":">> \o num \o rest :
        file \in {<<"f">>, <<"f", ":", "f">>},
        num \in {<<"1", "0">>, <<"x">>, <<"-", "1">>, <<>>},
        rest \in {<<":", "r", ":", "e", ":", " ", "m">>,
                  <<":", "r", ":", "w", ":", " ", "m", ":", " ", "m">>,
                  <<":", "e", ":", " ", "m">>,
                  <<":", "r", ":", "e", ":", "m">>}}
    \cup {<<" ">>,
          <<" ", "f", ":", "2", ":", "r", ":", "e", ":", " ", "m", " ">>,
          <<":", "+", "1", ":", ":", ":", " ", "m">>}

RECURSIVE LintStdoutsOf(_)
LintStdoutsOf(n) ==
    IF n = 0 THEN {<<>>}
    ELSE LintStdoutsOf(n - 1)
            \cup {t \o l \o <<"\n">> : t \in LintStdoutsOf(n - 1), l \in LintLines}

InitLintParse ==
    /\ stdout \in LintStdoutsOf(MaxLintLines)
    /\ stderr = <<>>
    /\ rpc = "start"
    /\ reason = <<>>
    /\ parsed = <<>>

IdleText ==
    /\ stdout = <<>>
    /\ stderr = <<>>
    /\ rpc = "idle"
    /\ reason = <<>>
    /\ parsed = <<>>

InitReason ==
    /\ stdout \in Stdouts
    /\ stderr \in Stderrs
    /\ rpc = "start"
    /\ reason = <<>>
    /\ parsed = <<>>

vars == <<installVars, nonInstallVars>>

Next ==
    \E p \in Procs :
        \/ Enter(p)
        \/ FetchLatestRelease(p)
        \/ SelectAndReadVersion(p)
        \/ CompareVersion(p)
        \/ DownloadAsset(p)
        \/ CreateTemp(p)
        \/ CopyChunk(p)
        \/ SetExecutable(p)
        \/ RenameIntoPlace(p)
        \/ OpenVersionFile(p)
        \/ WriteVersionFile(p)
        \/ Fallback(p)

Init == InitInstall /\ IdleRoot /\ IdleDecode /\ IdleServer /\ IdleTargets /\ IdlePayload /\ IdleText

Spec == Init /\ [][Next]_vars


(***************************************************************************)
(* Claims about the binary lifecycle manager, checked under Spec: two      *)
(* server processes running ensure_binary against one cache directory.     *)
(***************************************************************************)

\* C1: at every moment the file at the final binary path is either absent
\* or a complete, executable release binary, in every interleaving of two
\* processes' install steps.
C1_FinalPathNeverPartial ==
    Exists("binary_path") => CompleteExecutable("binary_path")

\* the marker file names release `tag`: the single line "{tag}\n"
MarkerNames(tag) == version_file = FileOf(VersionFileText(tag))

\* C2: the VERSION marker is written (opened for writing, then filled with
\* the tag line) only by a run that has copied the whole binary of the
\* release it fetched, made it executable and moved it into place, with no
\* step of that run having failed; what it writes is that release's tag.
C2_MarkerOnlyAfterInstall ==
    [][version_file' # version_file =>
        \E p \in Procs :
            /\ pc'[p] # pc[p]
            /\ {"download", "create", "copy", "chmod", "rename"} \subseteq trace[p]
            /\ update_err[p] = None
            /\ version_file' \in {FileOf(<<>>),
                                  FileOf(VersionFileText(release[p].tag_name))}]_vars

C2_Witness ==
    \E p \in Procs :
        /\ pc[p] = "done"
        /\ "write_version" \in trace[p]
        /\ MarkerNames(release[p].tag_name)
        /\ CompleteExecutable("binary_path")

\* C3: a run whose metadata fetch or update procedure failed returns the
\* final binary path exactly when a file exists at that path and an error
\* otherwise; every failure takes that decision, and a returned final path
\* always names an existing file.
C3_StaleCacheFallback ==
    [][\A p \in Procs :
        /\ (update_err'[p] # update_err[p] => pc'[p] = "fallback")
        /\ (pc[p] = "fallback" /\ pc'[p] # "fallback" =>
                /\ pc'[p] = "done"
                /\ (result'[p] = "Ok(binary_path)") <=> Exists("binary_path")
                /\ (result'[p] = "Err") <=> ~Exists("binary_path"))
        /\ (result'[p] = "Ok(binary_path)" => Exists("binary_path")')]_vars

C3_Witness ==
    \E p, q \in Procs :
        /\ pc[p] = "done" /\ update_err[p] # None /\ result[p] = "Ok(binary_path)"
        /\ pc[q] = "done" /\ update_err[q] = "fetch" /\ result[q] = "Err"

\* C8: with the metadata fetched and an asset selected, the run compares the
\* marker it read with the release tag: the marker it read equals the tag
\* exactly when the marker file holds that tag's line; it goes on to download
\* iff not (marker equals tag and a file exists at the final path), and when
\* it does not download it returns the final path and leaves the binary and
\* the marker as they are.
C8_DownloadIffStale ==
    [][\A p \in Procs :
        /\ (pc[p] = "select" /\ pc'[p] = "compare" =>
                (installed_tag'[p] = SomeTag(release[p].tag_name))
                    <=> MarkerNames(release[p].tag_name))
        /\ (pc[p] = "compare" /\ pc'[p] # "compare" =>
                LET current == /\ installed_tag[p] = SomeTag(release[p].tag_name)
                               /\ Exists("binary_path") IN
                /\ (pc'[p] = "download") <=> ~current
                /\ current => /\ pc'[p] = "done"
                              /\ result'[p] = "Ok(binary_path)"
                              /\ UNCHANGED cacheVars)
        /\ ("download" \in trace'[p] /\ "download" \notin trace[p] =>
                pc[p] = "download")]_vars

\* the marker matched and the binary was missing: the run downloaded again
C8_Witness ==
    \E p \in Procs :
        /\ installed_tag[p] = SomeTag(release[p].tag_name)
        /\ "download" \in trace[p]
        /\ pc[p] = "done"
        /\ update_err[p] = None

\* C9: with the override variable set, ensure_binary returns that path if it
\* exists and an error otherwise, and in both cases does nothing else: no
\* platform check, no fetch, no download, no access to the cache directory
\* or the marker.
C9_OverrideBypassesCache ==
    [][\A p \in Procs :
        pc[p] = "idle" /\ pc'[p] # "idle" /\ formatter_path'[p] # "unset" =>
            /\ pc'[p] = "done"
            /\ result'[p] = (IF formatter_path'[p] = "exists"
                             THEN "Ok(override)" ELSE "Err")
            /\ trace'[p] = {"env"}
            /\ UNCHANGED cacheVars]_vars

\* both outcomes, on a platform ensure_binary would otherwise reject
C9_Witness ==
    \E p, q \in Procs :
        /\ ~platform
        /\ pc[p] = "done" /\ formatter_path[p] = "exists" /\ result[p] = "Ok(override)"
        /\ pc[q] = "done" /\ formatter_path[q] = "missing" /\ result[q] = "Err"


(***************************************************************************)
(* resolve_cache_root on every environment.                                *)
(***************************************************************************)
InitCacheRoot ==
    InitRoot /\ IdleInstall /\ IdleDecode /\ IdleServer /\ IdleTargets /\ IdlePayload /\ IdleText

NextCacheRoot == ResolveCacheRoot

SpecCacheRoot == InitCacheRoot /\ [][NextCacheRoot]_vars

\* the candidates in the order the claim gives them
AllCandidates(e) ==
    (IF e.custom_set THEN <<"custom">> ELSE <<>>) \o candidates(e)

FirstOf(cands, creatable) ==
    LET ok == {i \in 1..Len(cands) : cands[i] \in creatable} IN
    IF ok = {} THEN ErrRoot
    ELSE OkRoot(cands[CHOOSE i \in ok : \A j \in ok : i <= j])

\* C7 as claimed: the cache root is the first candidate, override first,
\* that can be created, and resolution fails only when none can; an override
\* that cannot be created falls through to the next candidate.
C7_FirstCreatableCandidate ==
    cache_root # Unresolved =>
        cache_root = FirstOf(AllCandidates(cache_env), cache_env.creatable)

\* C7 as amended: with the override set the result is the override directory
\* if it can be created and an error otherwise, whatever else could be
\* created; with no override it is the first of cache-home default, the
\* directory under the current directory and the temp directory that can be
\* created, and an error only when none can.
C7_OverrideOrFirstCandidate ==
    cache_root # Unresolved =>
        IF cache_env.custom_set
        THEN cache_root = (IF "custom" \in cache_env.creatable
                           THEN OkRoot("custom") ELSE ErrRoot)
        ELSE cache_root = FirstOf(candidates(cache_env), cache_env.creatable)

\* the override cannot be created, another candidate can: resolution failed
C7_Witness ==
    /\ cache_env.custom_set
    /\ "custom" \notin cache_env.creatable
    /\ "temp" \in cache_env.creatable
    /\ cache_root = ErrRoot

(***************************************************************************)
(* read_mcp_message on every stream.                                       *)
(***************************************************************************)
InitDecodeSpec ==
    InitDecode /\ IdleInstall /\ IdleRoot /\ IdleServer /\ IdleTargets /\ IdlePayload /\ IdleText

NextDecode == ReadHeaderLine \/ ReadBody

SpecDecode == InitDecodeSpec /\ [][NextDecode]_vars

\* C6: decode gives the 'no more messages' signal only when the stream ends
\* before any header line was read; an end of stream after one or more
\* header lines, before the blank line, is a framing error.
C6_EofAfterHeaderIsError ==
    decoded = "Ok(None)" => lines_read = 0


(***************************************************************************)
(* One server process: the control loop reading any sequence of messages.  *)
(***************************************************************************)
InitServerSpec ==
    InitServer /\ InitInstall /\ IdleRoot /\ IdleDecode /\ IdleTargets /\ IdlePayload /\ IdleText

NextServer ==
    \/ ManagerNew
    \/ ReadMessage
    \/ HandlePlain
    \/ HandleToolRejected
    \/ HandleToolAcquire
    \/ EnsureBinaryStep
    \/ EnsureBinaryDone
    \/ FormatOneFile
    \/ LintAllFiles
    \/ WriteResponse

SpecServer == InitServerSpec /\ [][NextServer]_vars

\* C10: a message without an identifier is never answered, whatever its
\* method and arguments: no response is ever waiting to be written for it,
\* and the iteration that handled it wrote nothing.
C10_NotificationsNeverAnswered ==
    /\ (spc = "write" => message.id # "absent")
    /\ (last_exchange.id = "absent" =>
            last_exchange.written = 0 /\ last_exchange.response = NoResponse)

\* a tools/call notification was handled and the loop is reading again
C10_Witness ==
    /\ spc = "read"
    /\ last_exchange.id = "absent"
    /\ last_exchange.method = "tools/call"
    /\ last_exchange.written = 0

\* the message being handled is a tools/call for one of the two tools, with
\* an identifier and arguments that are an object or absent
ToolCall ==
    /\ message.id # "absent"
    /\ message.method = "tools/call"
    /\ message.name \in ToolNames
    /\ message.arguments.kind # "nonobject"

\* the tool succeeded: arguments valid, binary acquired, every child process
\* ran and exited with status 0
ToolSucceeded ==
    /\ ArgumentsOk(message.name, message.arguments)
    /\ binary \notin {None, "Err"}
    /\ spawn_log # <<>>
    /\ \A i \in 1..Len(spawn_log) : spawn_log[i].outcome = "exit 0"

\* C5: the response to a tools/call for gdscript_format or gdscript_lint with
\* object or absent arguments is a result, never an error member, and its
\* isError flag is true exactly when the tool did not succeed.
C5_ToolFailureIsResultWithIsError ==
    (spc = "write" /\ ToolCall) =>
        /\ response.kind = "result"
        /\ response.id = message.id
        /\ response.is_error = ~ToolSucceeded

\* the binary could not be acquired and the answer is a result with isError
C5_Witness ==
    /\ spc = "write"
    /\ ToolCall
    /\ binary = "Err"
    /\ response = success_response(message.id, TRUE)

\* C4 as claimed: the process ends only on the end of input, a framing error,
\* or when no cache-root candidate can be created.
C4_OnlyFramingOrCacheExhaustion ==
    spc = "exited" => exit_cause \in {"eof", "framing", "cache_candidates"}

\* C4: the process ends only at start-up (the cache root or the HTTP client
\* cannot be set up), at a read (end of input or a framing error) or at a
\* failed write of a response; no tool-level or acquisition failure ends it,
\* and after a written answer the loop reads again.
C4_ExitOnlyAtStartReadOrWrite ==
    [][/\ (spc # "exited" /\ spc' = "exited") =>
            \/ spc = "start" /\ exit_cause' \in {"custom_cache_dir", "cache_candidates",
                                                "http_client"}
            \/ spc = "read" /\ exit_cause' \in {"eof", "framing"}
            \/ spc = "write" /\ exit_cause' = "write"
       /\ (spc = "write" /\ spc' # "exited") =>
            /\ spc' = "read"
            /\ last_exchange'.written = 1
            /\ last_exchange'.response = response
       /\ (spc \in {"handle", "acquire", "format", "lint"}) =>
            spc' \in {"acquire", "format", "lint", "write", "read"}]_vars

\* a tool failure was answered with isError and the loop is reading again
C4_Witness ==
    /\ spc = "read"
    /\ last_exchange.method = "tools/call"
    /\ last_exchange.written = 1
    /\ last_exchange.response.is_error

(***************************************************************************)
(* resolve_target_files on every arguments map.                            *)
(***************************************************************************)
InitTargetsSpec ==
    InitTargets /\ IdleInstall /\ IdleRoot /\ IdleDecode /\ IdleServer /\ IdlePayload /\ IdleText

NextTargets ==
    \/ ParseArguments
    \/ InsertDirectFile
    \/ CollectDirFiles
    \/ InsertDirFile
    \/ FinishResolve

SpecTargets == InitTargetsSpec /\ [][NextTargets]_vars

(***************************************************************************)
(* The payload builders on every tool outcome.                             *)
(***************************************************************************)
InitPayloadSpec ==
    InitPayload /\ IdleInstall /\ IdleRoot /\ IdleDecode /\ IdleServer /\ IdleTargets
        /\ IdleText

NextPayload == BuildFormatPayload \/ BuildLintPayload

SpecPayload == InitPayloadSpec /\ [][NextPayload]_vars

\* a response is well formed for the request identifier `id`
WellFormedResponse(r, id) ==
    /\ r.id = id
    /\ {"jsonrpc", "id"} \subseteq r.members
    /\ ("result" \in r.members) # ("error" \in r.members)
    /\ ("error" \in r.members) => r.error = {"code", "message"}
    /\ ("result" \in r.members) => r.error = {}

\* C11: every response the dispatcher produces carries the identifier of the
\* request it answers and has exactly one of a result member and an error
\* member (code and message), both when it is handed to the writer and when
\* it has been written.
C11_ResponseEchoesIdWithOneMember ==
    /\ (spc = "write" => WellFormedResponse(response, message.id))
    /\ (last_exchange.written = 1 =>
            WellFormedResponse(last_exchange.response, last_exchange.id))

\* an error response to a request whose identifier is null
C11_Witness ==
    /\ spc = "write"
    /\ message.id = "null"
    /\ response.kind = "error"
    /\ "error" \in response.members

\* no tool executor has been entered for the message being handled
NoToolRan ==
    /\ binary = None
    /\ files = <<>>
    /\ spawn_log = <<>>
    /\ tool_result = NoResult

\* C12: for a request with an identifier, an unknown method is answered with
\* -32601, tools/call with arguments that are not an object with -32602,
\* tools/call with an unknown tool name with -32602, none of them running a
\* tool; tools/call with absent arguments is handled as with an empty object.
C12_Routing ==
    (spc = "write" /\ message.id # "absent") =>
        /\ message.method = "other" =>
                response = error_response(message.id, -32601) /\ NoToolRan
        /\ (message.method = "tools/call" /\ message.arguments.kind = "nonobject") =>
                response = error_response(message.id, -32602) /\ NoToolRan
        /\ (message.method = "tools/call" /\ message.name \notin ToolNames) =>
                response = error_response(message.id, -32602) /\ NoToolRan
        /\ (message.method = "tools/call" /\ message.name \in ToolNames
              /\ message.arguments.kind = "absent") =>
                /\ response.kind = "result"
                /\ response.is_error =
                      ~ArgumentsOk(message.name, [message.arguments EXCEPT !.kind = "object"])

\* tools/call with arguments that are not an object, naming a real tool
C12_Witness ==
    /\ spc = "write"
    /\ message.method = "tools/call"
    /\ message.name = "gdscript_lint"
    /\ message.arguments.kind = "nonobject"
    /\ response = error_response(message.id, -32602)

\* the message being handled is a format call whose arguments were accepted
\* and whose binary was acquired
FormatRunning ==
    /\ message.method = "tools/call"
    /\ message.name = "gdscript_format"
    /\ binary \notin {None, "Err"}

\* the files of `target_files` whose invocation in `log` did not exit with 0
RECURSIVE FailedFiles(_, _)
FailedFiles(target_files, log) ==
    IF log = <<>> THEN <<>>
    ELSE (IF Head(log).outcome = "exit 0" THEN <<>> ELSE <<Head(target_files)>>)
         \o FailedFiles(Tail(target_files), Tail(log))

\* C13: in a format call that passed validation and acquisition the
\* executable is invoked once per file of the target set, one file per
\* invocation, in target-set order; a nonzero exit or a spawn failure records
\* a failure for that file and the later files are still invoked.
C13_OneInvocationPerFileInOrder ==
    (FormatRunning /\ spc \in {"format", "write"}) =>
        /\ files = TargetFiles(message.arguments.targets.n)
        /\ Len(spawn_log) <= Len(files)
        /\ \A i \in 1..Len(spawn_log) : spawn_log[i].files = <<files[i]>>
        /\ failures = FailedFiles(files, spawn_log)
        /\ spc = "write" => Len(spawn_log) = Len(files)

\* the first file's invocation could not be spawned, the second one ran
C13_Witness ==
    /\ FormatRunning
    /\ spc = "write"
    /\ Len(spawn_log) = 2
    /\ spawn_log[1].outcome = "spawn failed"
    /\ spawn_log[2].outcome = "exit 0"
    /\ failures = <<files[1]>>

\* C14: in every format outcome processed_count is the number of files of
\* the resolved target set, there are at most processed_count failure
\* entries, and success is true exactly when the failure list is empty.
C14_FormatOutcomeCounts ==
    tool_result.tool = "format" =>
        /\ tool_result.processed_count = Len(files)
        /\ Len(tool_result.failures) <= tool_result.processed_count
        /\ tool_result.success = (Len(tool_result.failures) = 0)
        /\ tool_result.failures = failures

\* every invocation failed
C14_Witness ==
    /\ tool_result.tool = "format"
    /\ Len(files) = 2
    /\ tool_result.processed_count = 2
    /\ Len(tool_result.failures) = 2
    /\ ~tool_result.success

\* C15: the payload of a failed format outcome with N failures reports
\* failed_count = N, lists the first min(N, 20) failures in order, and sets
\* failures_truncated exactly when N > 20; the summary reports N as well.
C15_FailureListCappedCountExact ==
    (outcome.result.tool = "format" /\ ~outcome.result.success /\ structured.members # {}) =>
        LET all == outcome.result.failures
            N == Len(all)
        IN /\ structured.failed_count = N
           /\ Len(structured.list) = (IF N < 20 THEN N ELSE 20)
           /\ \A i \in 1..Len(structured.list) : structured.list[i] = all[i]
           /\ structured.truncated = (N > 20)
           /\ summary.failed_count = N

\* twenty-one failures: the list is cut, the count is not
C15_Witness ==
    /\ outcome.result.tool = "format"
    /\ Len(outcome.result.failures) = 21
    /\ structured.failed_count = 21
    /\ Len(structured.list) = 20
    /\ structured.truncated

\* C16: for a diagnostic list of length L and max_diagnostics = M the lint
\* payload returns the first min(L, M) diagnostics, diagnostics_truncated is
\* true exactly when L > M, and total_diagnostics is L.
C16_DiagnosticsCapped ==
    (outcome.result.tool = "lint" /\ structured.members # {}) =>
        LET all == outcome.result.diagnostics
            L == Len(all)
            M == outcome.max_diagnostics
        IN /\ Len(structured.list) = (IF L < M THEN L ELSE M)
           /\ \A i \in 1..Len(structured.list) : structured.list[i] = all[i]
           /\ structured.truncated = (L > M)
           /\ structured.total_diagnostics = L

\* two diagnostics, one asked for
C16_Witness ==
    /\ outcome.result.tool = "lint"
    /\ Len(outcome.result.diagnostics) = 2
    /\ outcome.max_diagnostics = 1
    /\ Len(structured.list) = 1
    /\ structured.truncated
    /\ structured.total_diagnostics = 2

\* the message being handled is a lint call with object or absent arguments
LintCall ==
    /\ message.method = "tools/call"
    /\ message.name = "gdscript_lint"
    /\ message.arguments.kind # "nonobject"

\* the lint child process was spawned and exited
LintRan ==
    /\ LintCall
    /\ Len(spawn_log) = 1
    /\ spawn_log[1].outcome # "spawn failed"

\* C17: the lint success flag, and with it isError, is decided by the exit
\* status of the child process alone, whatever diagnostics were parsed and
\* whatever their severities.
C17_LintSuccessIsExitStatus ==
    (spc = "write" /\ LintRan) =>
        /\ tool_result.tool = "lint"
        /\ tool_result.success = (spawn_log[1].outcome = "exit 0")
        /\ response.is_error = ~tool_result.success

\* exit status 0 with an error-severity diagnostic: success
C17_Witness ==
    /\ spc = "write"
    /\ LintRan
    /\ spawn_log[1].outcome = "exit 0"
    /\ tool_result.error_count > 0
    /\ tool_result.success
    /\ ~response.is_error

\* C18: a lint call that passes validation (and has the executable) spawns
\* it exactly once, with all resolved targets in that invocation; with an
\* empty target set it fails without spawning anything unless list_rules is
\* true, and then runs exactly once with no file arguments.
C18_LintSpawnsOnce ==
    LintCall =>
        LET a == message.arguments
            valid == /\ a.targets.ok
                     /\ a.types_ok
                     /\ ~(a.size.some /\ a.size.value < 1)
                     /\ (a.targets.n > 0 \/ a.list_rules)
        IN /\ Len(spawn_log) <= 1
           /\ spc = "lint" => valid /\ spawn_log = <<>>
           /\ (spc = "write" /\ valid /\ binary \notin {None, "Err"}) =>
                /\ Len(spawn_log) = 1
                /\ spawn_log[1].files = TargetFiles(a.targets.n)
           /\ (spc \in {"acquire", "lint", "write"} /\ a.targets.ok /\ a.targets.n = 0
                 /\ ~a.list_rules) =>
                /\ spawn_log = <<>>
                /\ spc = "write"
                /\ response = success_response(message.id, TRUE)

\* no targets, list_rules: one invocation without file arguments
C18_Witness ==
    /\ LintCall
    /\ spc = "write"
    /\ message.arguments.targets.n = 0
    /\ message.arguments.list_rules
    /\ Len(spawn_log) = 1
    /\ spawn_log[1].files = <<>>

\* the explicit files and the scan results the call was given
Supplied ==
    Range(arguments.files.value)
    \cup (IF arguments.dir = "given" THEN Range(walk.files) ELSE {})

StrictlyAscending(q) == \A i, j \in DOMAIN q : i < j => q[i] < q[j]

\* C19: a successful target resolution has no path twice and is in ascending
\* order; it holds exactly the explicit files and the scan results, so the
\* sequence does not depend on the order they were listed or discovered in.
C19_ResolvedSortedNoDuplicates ==
    resolved.state = "Ok" =>
        /\ StrictlyAscending(resolved.files)
        /\ Range(resolved.files) = Supplied

\* explicit files listed in descending order, one of them found again by
\* the scan
C19_Witness ==
    /\ resolved.state = "Ok"
    /\ Len(arguments.files.value) = 2
    /\ arguments.files.value[1] > arguments.files.value[2]
    /\ arguments.dir = "given"
    /\ Range(walk.files) \cap Range(arguments.files.value) # {}
    /\ Len(walk.files) = 2

\* include or exclude is supplied and dir is not
PatternsWithoutDir ==
    /\ arguments.dir = "absent"
    /\ arguments.include # "absent" \/ arguments.exclude # "absent"

\* files, include and exclude are absent or arrays of strings
WellTyped ==
    /\ arguments.files.kind # "invalid"
    /\ arguments.include # "invalid"
    /\ arguments.exclude # "invalid"

\* C20 as claimed: with include or exclude supplied and no dir, resolution
\* fails with the usage error whatever the values of files, include and
\* exclude and the required flag.
C20_UsageErrorWhateverTheValues ==
    (tpc = "done" /\ PatternsWithoutDir) => resolved = ErrFiles(UsageError)

\* C20: with include or exclude supplied and no dir, resolution always
\* fails; the error is the usage error when files, include and exclude are
\* each absent or an array of strings, whatever the required flag, and
\* otherwise the type error of the first of them that is not.
C20_UsageErrorWhenWellTyped ==
    (tpc = "done" /\ PatternsWithoutDir) =>
        /\ resolved.state = "Err"
        /\ WellTyped => resolved = ErrFiles(UsageError)
        /\ ~WellTyped => resolved = ErrFiles(FirstTypeError(arguments))

\* explicit files and an exclude list, no dir, files not required
C20_Witness ==
    /\ tpc = "done"
    /\ arguments.dir = "absent"
    /\ arguments.include = "absent"
    /\ arguments.exclude = "given"
    /\ arguments.files.kind = "given"
    /\ arguments.files.value # <<>>
    /\ ~required
    /\ resolved = ErrFiles(UsageError)

(***************************************************************************)
(* resolve_target_files on calls that scan a directory.                    *)
(***************************************************************************)
InitScanSpec ==
    InitScan /\ IdleInstall /\ IdleRoot /\ IdleDecode /\ IdleServer /\ IdlePayload /\ IdleText

SpecScan == InitScanSpec /\ [][NextTargets]_vars

\* the regular files under the scan root whose path matches an include
\* pattern (every .gd file when none is given) and no exclude pattern
ScanMatches ==
    {p \in Paths :
        /\ scan.tree[p] \in {"gd file", "other file"}
        /\ IF arguments.include = "given"
           THEN \/ DefaultInclude \in scan.include /\ scan.tree[p] = "gd file"
                \/ "first" \in scan.include /\ p = 1
           ELSE scan.tree[p] = "gd file"
        /\ ~(arguments.exclude = "given" /\ DefaultInclude \in scan.exclude
               /\ scan.tree[p] = "gd file")
        /\ ~(arguments.exclude = "given" /\ "first" \in scan.exclude /\ p = 1)}

\* C21: the resolved target set is the union of every explicit file path,
\* whether or not it matches a pattern, and every regular file under the scan
\* root that matches an include pattern and no exclude pattern; nothing else.
C21_ExplicitUnionScan ==
    resolved.state = "Ok" =>
        Range(resolved.files) = Range(arguments.files.value) \cup ScanMatches

\* an explicit file that the exclude pattern matches is in the set, a
\* scanned file is in it and another one is excluded
C21_Witness ==
    /\ resolved.state = "Ok"
    /\ arguments.exclude = "given"
    /\ scan.exclude = {"first"}
    /\ arguments.files.value = <<1>>
    /\ scan.tree[1] = "other file"
    /\ 1 \notin ScanMatches
    /\ ScanMatches # {}
    /\ Range(resolved.files) = {1} \cup ScanMatches

(***************************************************************************)
(* The control loop (main.rs 20-33): how it ends, one request at a time,   *)
(* and when ensure_binary runs.                                            *)
(***************************************************************************)
\* no request is being handled
NothingInFlight ==
    /\ message = NoMessage
    /\ NoToolRan
    /\ pc[Server] = "idle"

\* C22: when the input ends cleanly or a malformed frame is read, the loop
\* exits: the step that reads it writes nothing, no message is being handled
\* and no tool runs, and from then on nothing is read, dispatched or written.
C22_ReadEndTerminatesLoop ==
    [][/\ exit_cause' \in {"eof", "framing"} =>
            /\ spc' = "exited"
            /\ NothingInFlight'
            /\ response' = NoResponse
            /\ last_exchange'.written = 0
       /\ spc = "exited" => UNCHANGED vars]_vars

\* a malformed frame ended the loop, with the executable of an earlier
\* request still in the cache
C22_Witness ==
    /\ spc = "exited"
    /\ exit_cause = "framing"
    /\ NothingInFlight
    /\ response = NoResponse
    /\ CompleteExecutable("binary_path")

\* the child processes a tool runs for the message being handled have all
\* been spawned and have returned
ChildrenFinished ==
    /\ FormatRunning => Len(spawn_log) = Len(files)
    /\ (LintCall /\ binary \notin {None, "Err"}) => Len(spawn_log) = 1
    /\ \A i \in 1..Len(spawn_log) : spawn_log[i].outcome \in ChildOutcomes

\* C23: one request is in flight at a time.  A message is read only at the
\* head of the loop, with nothing of the previous request left; the step that
\* leaves a request for the next read is the write of its response when it
\* has one (written once, carrying the request's identifier) and writes
\* nothing when it has none; and every child process of the request has
\* returned before its response is written.
C23_OneRequestInFlight ==
    [][/\ message' # message /\ message' # NoMessage => spc = "read" /\ NothingInFlight
       /\ (spc \notin {"start", "read"} /\ spc' = "read") =>
            /\ last_exchange'.id = message.id
            /\ last_exchange'.written = IF last_exchange'.response = NoResponse THEN 0 ELSE 1
            /\ last_exchange'.response # NoResponse =>
                    /\ spc = "write"
                    /\ last_exchange'.response = response
                    /\ last_exchange'.response.id = message.id
            /\ last_exchange'.response = NoResponse <=> Dispatch(message).to = "ignore"
       /\ spc' = "write" => ChildrenFinished'
       /\ spawn_log' # spawn_log /\ spawn_log' # <<>> => message' = message /\ spc \in {"format", "lint"}]_vars

\* a format call ran two child processes, its response was written and the
\* loop is reading again
C23_Witness ==
    /\ spc = "read"
    /\ last_exchange.method = "tools/call"
    /\ last_exchange.written = 1
    /\ last_exchange.response.id = last_exchange.id
    /\ NothingInFlight

\* the message being handled does not get as far as ensure_binary: it is a
\* notification, not a tools/call, names no tool, or its arguments are not an
\* object, are ill-typed, give a size below 1, or resolve to no target where
\* one is required
StopsBeforeEnsureBinary ==
    \/ message.id = "absent"
    \/ message.method # "tools/call"
    \/ message.name \notin ToolNames
    \/ message.arguments.kind = "nonobject"
    \/ ~message.arguments.targets.ok
    \/ ~message.arguments.types_ok
    \/ message.arguments.size.some /\ message.arguments.size.value < 1
    \/ /\ message.arguments.targets.n = 0
       /\ message.name = "gdscript_format" \/ ~message.arguments.list_rules

\* C30: ensure_binary is entered only while handling a tools/call that passed
\* validation and target resolution, once per request and before any child
\* process; any other request leaves the release metadata, the cache and the
\* child processes untouched; and no child process is spawned unless
\* ensure_binary returned an executable.
C30_EnsureBinaryOnlyForValidCalls ==
    [][/\ StopsBeforeEnsureBinary =>
            /\ UNCHANGED installVars
            /\ spawn_log' = <<>>
            /\ binary' = None
       /\ (pc[Server] = "idle" /\ pc'[Server] # "idle") =>
            /\ spc = "handle" /\ spc' = "acquire"
            /\ binary = None
            /\ spawn_log = <<>>
       /\ spc' = "handle" => spc = "read"
       /\ (spawn_log' # spawn_log /\ spawn_log' # <<>>) =>
            /\ binary \notin {None, "Err"}
            /\ pc[Server] = "idle"
       /\ binary' = "Err" => spawn_log' = <<>>]_vars

\* ensure_binary failed for a valid format call and the error is about to be
\* written with no child process spawned
C30_Witness ==
    /\ spc = "write"
    /\ ~StopsBeforeEnsureBinary
    /\ message.name = "gdscript_format"
    /\ binary = "Err"
    /\ spawn_log = <<>>

(***************************************************************************)
(* The failure reason of a formatter invocation.                           *)
(***************************************************************************)
InitReasonSpec ==
    InitReason /\ IdleInstall /\ IdleRoot /\ IdleDecode /\ IdleServer /\ IdleTargets
        /\ IdlePayload

NextReason == NormalizeReason \/ NormalizeAgain \/ ExtractReason

SpecReason == InitReasonSpec /\ [][NextReason]_vars

\* no whitespace at either end and no two whitespace characters in a row
Clean(t) ==
    /\ t # <<>>
    /\ ~IsWhitespace(t[1])
    /\ ~IsWhitespace(t[Len(t)])
    /\ \A i \in 1..(Len(t) - 1) : ~(IsWhitespace(t[i]) /\ IsWhitespace(t[i + 1]))

AllWhitespace(t) == \A i \in 1..Len(t) : IsWhitespace(t[i])

\* C24: normalizing a normalized reason gives it back unchanged; a normalized
\* reason has no leading, trailing or consecutive whitespace; and an empty or
\* all-whitespace text normalizes to the placeholder.
C24_NormalizeIdempotent ==
    [][/\ rpc' = "normalized" =>
            /\ Clean(reason')
            /\ AllWhitespace(stderr) => reason' = Placeholder
       /\ rpc' = "renormalized" => reason' = reason]_vars

\* a text with a blank line between two words was normalized twice
C24_Witness ==
    /\ rpc = "renormalized"
    /\ stderr = <<"a", " ", "\n", "a">>
    /\ reason = <<"a", " ", "a">>

\* the positions at which pat occurs in s
Occurs(s, pat) ==
    {i \in 1..Len(s) : i + Len(pat) - 1 <= Len(s) /\ SubSeq(s, i, i + Len(pat) - 1) = pat}

Least(S) == CHOOSE i \in S : \A j \in S : i <= j

\* what follows the first occurrence of pat in s
AfterFirst(s, pat) == SubSeq(s, Least(Occurs(s, pat)) + Len(pat), Len(s))

\* s without the quote characters at its end, and at both ends
WithoutQuotesAtEnd(s) ==
    LET n == CHOOSE n \in 0..Len(s) :
                /\ n = 0 \/ s[n] # "\""
                /\ \A i \in (n + 1)..Len(s) : s[i] = "\""
    IN SubSeq(s, 1, n)

WithoutQuotesAround(s) ==
    LET e == WithoutQuotesAtEnd(s)
        m == CHOOSE m \in 1..(Len(e) + 1) :
                /\ m = Len(e) + 1 \/ e[m] # "\""
                /\ \A i \in 1..(m - 1) : e[i] = "\""
    IN SubSeq(e, m, Len(e))

\* the text the reason is taken from: (a) from the first stderr line with the
\* quoted-error marker, what follows the marker less its closing quotes, cut
\* after its first `delimiter` if it has one; (b) else from the first stderr
\* line with the Failed-to-format marker and a colon after it, what follows
\* that colon less the quotes around it; (c) else stderr if it counts; (d)
\* else stdout
ReasonSource(delimiter, stderr_counts) ==
    LET ls == lines(stderr)
        A == {k \in 1..Len(ls) : Occurs(ls[k], ErrorMarker) # {}}
        B == {k \in 1..Len(ls) :
                /\ Occurs(ls[k], FailedMarker) # {}
                /\ Occurs(AfterFirst(ls[k], FailedMarker), <<":">>) # {}}
    IN IF A # {}
       THEN LET q == WithoutQuotesAtEnd(AfterFirst(ls[Least(A)], ErrorMarker)) IN
            IF Occurs(q, delimiter) # {} THEN AfterFirst(q, delimiter) ELSE q
       ELSE IF B # {}
       THEN WithoutQuotesAround(AfterFirst(AfterFirst(ls[Least(B)], FailedMarker), <<":">>))
       ELSE IF stderr_counts THEN stderr ELSE stdout

\* C25 as claimed: the quoted text is cut after its first colon, and stdout
\* is used only when stderr is empty.
C25_CutAtFirstColonStdoutOnlyIfEmpty ==
    rpc = "extracted" => reason = normalize_reason(ReasonSource(<<":">>, stderr # <<>>))

\* C25: the reason is the normalized text of (a) the first stderr line with
\* the quoted-error marker: what follows the marker less its closing quotes,
\* cut after its first colon-and-space if it has one; (b) else the first
\* stderr line with the Failed-to-format marker and a colon after it: what
\* follows that colon less the quotes around it; (c) else all of stderr,
\* unless that normalizes to the placeholder; (d) else stdout.  The
\* formatter's own report gives exactly its explanation.
C25_ReasonBySource ==
    rpc = "extracted" =>
        /\ reason = normalize_reason(ReasonSource(<<":", " ">>,
                                                  normalize_reason(stderr) # Placeholder))
        /\ stderr = ExampleStderr => reason = <<"a", " ", "a">>

\* the reason of the formatter's own report was extracted
C25_Witness ==
    /\ rpc = "extracted"
    /\ stderr = ExampleStderr
    /\ reason = <<"a", " ", "a">>

(***************************************************************************)
(* The diagnostics parsed from the linter's stdout.                        *)
(***************************************************************************)
InitLintParseSpec ==
    InitLintParse /\ IdleInstall /\ IdleRoot /\ IdleDecode /\ IdleServer /\ IdleTargets
        /\ IdlePayload

NextLintParse == ParseLintDiagnostics

SpecLintParse == InitLintParseSpec /\ [][NextLintParse]_vars

Greatest(S) == CHOOSE i \in S : \A j \in S : j <= i

\* a non-negative integer in decimal
IsLineNumber(ds) ==
    \E body \in {ds} \cup (IF ds # <<>> /\ ds[1] = "+" THEN {Tail(ds)} ELSE {}) :
        /\ body # <<>>
        /\ \A i \in 1..Len(body) : body[i] \in {"0", "1", "2"}

\* the fields of a line: message after the first colon-and-space; in the
\* header before it, severity after the last colon, rule between the last
\* two, line number between the two before, file ahead of the third colon
\* from the right
FieldsOf(line) ==
    LET t == trim(line)
        seps == Occurs(t, <<":", " ">>)
        header == IF seps = {} THEN <<>> ELSE SubSeq(t, 1, Least(seps) - 1)
        colons == Occurs(header, <<":">>)
        c3 == Greatest(colons)
        c2 == Greatest(colons \ {c3})
        c1 == Greatest(colons \ {c3, c2})
    IN IF seps = {} \/ Cardinality(colons) < 3 THEN <<>>
       ELSE IF ~IsLineNumber(SubSeq(header, c1 + 1, c2 - 1)) THEN <<>>
       ELSE <<[file |-> SubSeq(header, 1, c1 - 1),
               line |-> DecimalValue(trim_start_matches_char(SubSeq(header, c1 + 1, c2 - 1), "+")),
               column |-> "null",
               rule |-> SubSeq(header, c2 + 1, c3 - 1),
               severity |-> SubSeq(header, c3 + 1, Len(header)),
               message |-> SubSeq(t, Least(seps) + 2, Len(t))]>>

RECURSIVE FieldsOfLines(_, _)
FieldsOfLines(ls, k) ==
    IF k > Len(ls) THEN <<>> ELSE FieldsOf(ls[k]) \o FieldsOfLines(ls, k + 1)

\* C26: every stdout line with a colon-and-space, three colons in the header
\* before the first one and a non-negative integer between the third and the
\* second colon from the right gives one diagnostic with those fields (the
\* file keeps its own colons) and a null column; every other line gives
\* none; and the diagnostics are in the order of their lines.
C26_LintGrammar ==
    rpc = "parsed" =>
        /\ parsed = FieldsOfLines(lines(stdout), 1)
        /\ \A i \in 1..Len(parsed) : parsed[i].column = "null"

\* of two lines the first is skipped for its line-number field, and the
\* second gives a diagnostic whose file has a colon
C26_Witness ==
    /\ rpc = "parsed"
    /\ Len(lines(stdout)) = 2
    /\ Len(parsed) = 1
    /\ parsed[1] = [file |-> <<"f", ":", "f">>, line |-> 10, column |-> "null",
                    rule |-> <<"r">>, severity |-> <<"e">>, message |-> <<"m">>]
    /\ lines(stdout)[1] = <<"f", ":", "x", ":", "r", ":", "e", ":", " ", "m">>

(***************************************************************************)
(* Asset selection within ensure_binary.                                   *)
(***************************************************************************)
\* the name contains the platform key and ends with the archive extension
ForPlatform(name) ==
    /\ \E i \in 1..Len(name) : name[i] = PlatformKey
    /\ name[Len(name)] = ".zip"

\* process p takes the step that selects the asset
Selecting(p) == pc[p] = "select" /\ pc'[p] # "select"

AssetNames(p) == {release[p].assets[i] : i \in 1..Len(release[p].assets)}

\* C27 as claimed: whenever the release has an asset whose name contains the
\* platform key and ends with the archive extension, one is selected.
C27_AnyPlatformArchiveIsSelected ==
    [][\A p \in Procs :
        (Selecting(p) /\ \E n \in AssetNames(p) : ForPlatform(n)) =>
            /\ pc'[p] = "compare"
            /\ ForPlatform(release'[p].assets[1])]_vars

\* C27: whenever the release has an asset whose name starts with
\* gdscript-formatter-, contains the platform key and ends with the archive
\* extension, such an asset is selected; otherwise the attempt is an update
\* failure: nothing is downloaded, and ensure_binary returns the cached
\* binary if there is one and an error if not.
C27_FormatterAssetSelectedOrUpdateFails ==
    [][\A p \in Procs :
        /\ Selecting(p) =>
            LET matching == {n \in AssetNames(p) :
                                ForPlatform(n) /\ n[1] = "gdscript-formatter-"}
            IN IF matching # {}
               THEN /\ pc'[p] = "compare"
                    /\ release'[p].assets \in {<<n>> : n \in matching}
               ELSE /\ pc'[p] = "fallback"
                    /\ update_err'[p] = "select_asset"
                    /\ UNCHANGED cacheVars
        /\ update_err'[p] = "select_asset" =>
            /\ "download" \notin trace'[p]
            /\ out_file'[p] = NoInode
            /\ pc'[p] \in {"fallback", "done"}
        /\ (update_err[p] = "select_asset" /\ pc[p] = "fallback" /\ pc'[p] = "done") =>
            /\ result'[p] = IF Exists("binary_path") THEN "Ok(binary_path)" ELSE "Err"
            /\ UNCHANGED cacheVars]_vars

\* the release held another tool's archive for the platform only, and the
\* cached binary was returned without a download
C27_Witness ==
    \E p \in Procs :
        /\ pc[p] = "done"
        /\ update_err[p] = "select_asset"
        /\ result[p] = "Ok(binary_path)"
        /\ "download" \notin trace[p]

(***************************************************************************)
(* read_mcp_message against the bytes it was handed, and after             *)
(* write_mcp_message.                                                      *)
(***************************************************************************)
\* the positions at which a blank line of s ends: a line of carriage returns
\* and line feeds only, closed by a line feed or by the end of s
BlankLineEnds(s) ==
    {e \in 1..Len(s) :
        /\ s[e] = "\n" \/ e = Len(s)
        /\ \A j \in (Greatest({0} \cup {k \in 1..(e - 1) : s[k] = "\n"}) + 1)..e :
                s[j] \in {"\r", "\n"}}

\* the values of the length headers among the lines of a header block, in
\* order; an unparsable one gives NoLength
RECURSIVE LengthHeaders(_)
LengthHeaders(ls) ==
    IF ls = <<>> THEN <<>>
    ELSE LET h == split_once(trim_end_matches(Head(ls)), ":") IN
         (IF h.some /\ IsContentLength(h.name) THEN <<parse_usize(trim(h.value))>> ELSE <<>>)
            \o LengthHeaders(Tail(ls))

\* what a frame at the head of s is: its header block ends with the first
\* blank line, the last length header before it declares n bytes, and n
\* bytes of valid JSON follow
Frame(s) ==
    LET ends == BlankLineEnds(s)
        he == Least(ends)
        lens == LengthHeaders(lines(SubSeq(s, 1, he)))
        n == lens[Len(lens)].len
    IN IF ends = {} THEN [kind |-> "unfinished", used |-> 0]
       ELSE IF lens = <<>> \/ \E i \in 1..Len(lens) : ~lens[i].some
       THEN [kind |-> "no length", used |-> 0]
       ELSE IF Len(s) - he < n THEN [kind |-> "short body", used |-> 0]
       ELSE IF ~from_slice(SubSeq(s, he + 1, he + n)).some
       THEN [kind |-> "invalid body", used |-> 0]
       ELSE [kind |-> "message", used |-> he + n]

IsError(d) == d \notin {"pending", "Ok(Some)", "Ok(None)"}

\* C28: read_mcp_message returns a message only from a well-formed frame, and
\* then it has consumed the headers, the blank line and the declared number of
\* body bytes and nothing more; a header block that ends with no parsable
\* length header, a stream that ends before the declared number of body bytes
\* and a body that is not valid JSON each make it fail.
C28_MessageOnlyFromWellFormedFrame ==
    dpc = "done" =>
        /\ decoded = "Ok(Some)" <=> Frame(input).kind = "message"
        /\ decoded = "Ok(Some)" =>
                stream = SubSeq(input, Frame(input).used + 1, Len(input))
        /\ Frame(input).kind \in {"no length", "short body", "invalid body"} => IsError(decoded)

\* a message was returned with the next frame left on the stream, unread
C28_Witness ==
    /\ dpc = "done"
    /\ decoded = "Ok(Some)"
    /\ value = Object
    /\ stream = <<"CL", ":", "1", "\n", "\n", "0">>
    /\ Len(input) - Len(stream) = Frame(input).used

InitRoundTripSpec ==
    InitRoundTrip /\ IdleInstall /\ IdleRoot /\ IdleServer /\ IdleTargets /\ IdlePayload
        /\ IdleText

NextRoundTrip == WriteMcpMessage \/ ReadHeaderLine \/ ReadBody \/ DecodeAgain

SpecRoundTrip == InitRoundTripSpec /\ [][NextRoundTrip]_vars

\* C29: every value written comes back from read_mcp_message, in the order
\* written and with no error, and the call after the last one gives the 'no
\* more messages' signal with the stream used up; and what write_mcp_message
\* writes is the length header with the byte length of the serialized value,
\* a blank line, and the serialized value.
C29_RoundTrip ==
    /\ [](/\ ~IsError(decoded)
          /\ Len(received) <= Len(sent)
          /\ \A i \in 1..Len(received) : received[i] = sent[i]
          /\ (dpc = "done" /\ decoded = "Ok(Some)") => value = sent[Len(received) + 1]
          /\ decoded = "Ok(None)" => received = sent /\ stream = <<>>)
    /\ [][outbox' # outbox =>
            \E d \in 1..3 :
                LET frame == SubSeq(stream', Len(stream) + 1, Len(stream'))
                    body == SubSeq(frame, 8 + d, Len(frame))
                IN /\ SubSeq(frame, 1, 3) = <<"CL", ":", " ">>
                   /\ parse_usize(SubSeq(frame, 4, 3 + d)) = SomeLength(Len(body))
                   /\ SubSeq(frame, 4 + d, 7 + d) = <<"\r", "\n", "\r", "\n">>
                   /\ from_slice(body) = [some |-> TRUE, value |-> Head(outbox)]]_vars

\* an array of eleven bytes and an object were written, both came back in
\* order, and the third call found the end of the stream
C29_Witness ==
    /\ sent = <<Zeros(5), Object>>
    /\ received = sent
    /\ decoded = "Ok(None)"
    /\ dpc = "done"

(***************************************************************************)
(* Which messages handle_request answers.                                  *)
(***************************************************************************)
\* the message has an id member (null counts) and a method member that is a
\* string
HasIdAndStringMethod(id, method) ==
    id # "absent" /\ method \notin {"absent", "nonstring"}

\* C31: handle_request answers a message if and only if it has an id member
\* and a method member that is a string: a message with an id and no method,
\* or a method that is not a string, gets no response and no error response,
\* and a message whose id is null is answered like one with any other id.
C31_AnsweredIffIdAndStringMethod ==
    /\ [](/\ spc \in {"acquire", "format", "lint", "write"} =>
                HasIdAndStringMethod(message.id, message.method)
          /\ spc = "write" => response # NoResponse /\ response.id = message.id
          /\ last_exchange # NoExchange =>
                /\ last_exchange.written = 1 <=>
                        HasIdAndStringMethod(last_exchange.id, last_exchange.method)
                /\ last_exchange.response # NoResponse <=> last_exchange.written = 1)
    /\ [][spc = "handle" =>
            /\ (spc' = "read" /\ response' = NoResponse) <=>
                    ~HasIdAndStringMethod(message.id, message.method)
            /\ spc' = "write" => response' # NoResponse /\ response'.id = message.id]_vars

\* a message with an id and a method that is not a string was dropped, and
\* the loop is reading again with nothing written
C31_Witness ==
    /\ spc = "read"
    /\ last_exchange.id = "1"
    /\ last_exchange.method = "nonstring"
    /\ last_exchange.written = 0
    /\ last_exchange.response = NoResponse

(***************************************************************************)
(* What a failed update leaves behind.                                     *)
(***************************************************************************)
\* the steps of the update that come before the move into binary_path
PreMoveSteps == {"select_asset", "download_failed", "no_entry", "create", "copy", "chmod"}

\* the steps by which a run changes the file at binary_path or the marker
ChangesOfCache == {"write to binary_path", "rename", "write_version"}

\* C32: an update attempt that fails at a step before the move into the final
\* path (asset selection, download, entry lookup, temp-file creation,
\* extraction, chmod) has changed neither the file at binary_path nor the
\* VERSION marker.
C32_FailedUpdateLeavesCacheAsItWas ==
    \A p \in Procs :
        (pc[p] = "fallback" /\ update_err[p] \in PreMoveSteps) =>
            trace[p] \cap ChangesOfCache = {}

(***************************************************************************)
(* What a successful update leaves behind, in one process.                 *)
(***************************************************************************)
\* ensure_binary of p is returning Ok(binary_path) from the Ok(()) arm of
\* update_result: the metadata was fetched and no step failed
UpdatedWithoutFallback(p) ==
    /\ pc[p] = "done"
    /\ result[p] = "Ok(binary_path)"
    /\ "fetch" \in trace[p]
    /\ "fallback" \notin trace[p]

\* C33: in a single server process, whenever ensure_binary returns
\* successfully through the update path without the stale fallback, a file
\* exists at binary_path and the VERSION marker, read as the code reads it,
\* is the tag of the release just fetched.
C33_SuccessMeansBinaryAndMarkerOfRelease ==
    UpdatedWithoutFallback(Server) =>
        /\ Exists("binary_path")
        /\ ReadInstalledTag(version_file) = SomeTag(release[Server].tag_name)

\* the cache held the first release, the second was fetched and installed,
\* and ensure_binary is returning to the tool
C33_Witness ==
    /\ UpdatedWithoutFallback(Server)
    /\ spc = "acquire"
    /\ "write_version" \in trace[Server]
    /\ release[Server].tag_name = <<"v", "2">>
    /\ version_file = FileOf(VersionFileText(<<"v", "2">>))
    /\ CompleteExecutable("binary_path")

(***************************************************************************)
(* Two processes installing different releases.                            *)
(***************************************************************************)
\* ensure_binary of p moved its binary into place, wrote the marker and is
\* returning
Installed(p) ==
    /\ pc[p] = "done"
    /\ {"rename", "write_version"} \subseteq trace[p]

\* C34: when two server processes that fetched different release tags have
\* both run the install steps (move the binary into place, then write the
\* marker), in whatever interleaving, the VERSION marker names the release
\* whose binary is at binary_path; stated for the runs that leave a whole
\* binary there.
C34_MarkerNamesInstalledBinary ==
    (/\ \A p \in Procs : Installed(p)
     /\ \A p, q \in Procs : p # q => release[p].tag_name # release[q].tag_name
     /\ CompleteExecutable("binary_path")) =>
        \E t \in Tags :
            /\ inodes[dirent["binary_path"]].data = BinaryOf(t)
            /\ ReadInstalledTag(version_file) = SomeTag(t)

(***************************************************************************)
(* The severity counts of the lint payload.                                *)
(***************************************************************************)
\* the number of diagnostics of the list whose severity is sev
WithSeverity(diagnostics, sev) ==
    Cardinality({i \in 1..Len(diagnostics) : diagnostics[i] = sev})

\* C35: error_count and warning_count of the lint payload are the numbers of
\* diagnostics in the full parsed list whose severity is exactly "error" and
\* exactly "warning"; so their sum is at most total_diagnostics, and they do
\* not depend on max_diagnostics, whether the returned list is cut or empty.
C35_CountsOverFullList ==
    (outcome.result.tool = "lint" /\ structured.members # {}) =>
        LET all == outcome.result.diagnostics IN
        /\ structured.error_count = WithSeverity(all, "error")
        /\ structured.warning_count = WithSeverity(all, "warning")
        /\ structured.error_count + structured.warning_count <= structured.total_diagnostics
        /\ \A m \in MaxDiagnosticsValues :
            LET other == lint_structured_content(outcome.result, m) IN
            /\ other.error_count = structured.error_count
            /\ other.warning_count = structured.warning_count

\* an error and a diagnostic of another severity, none asked for: the list is
\* empty and the counts are those of the two
C35_Witness ==
    /\ outcome.result.tool = "lint"
    /\ outcome.result.diagnostics = <<"error", "info">>
    /\ outcome.max_diagnostics = 0
    /\ structured.list = <<>>
    /\ structured.truncated
    /\ structured.error_count = 1
    /\ structured.warning_count = 0
    /\ structured.total_diagnostics = 2

=============================================================================
